---- MODULE Spec2Model ----
(***************************************************************************)
(* Model of the in-memory caching layer of the order service:              *)
(*   internal/cache/lru_cache/list  (LRUListNode, LRUList)                 *)
(*   internal/cache/lru_cache       (LRUCache)                             *)
(* The heap of list nodes is modelled pointer by pointer: every node has   *)
(* the fields next, prev, list, Key and Value of LRUListNode, every list   *)
(* has its sentinel root and its len.  Node references are integers:       *)
(* 0 is the nil pointer, 1..MaxNodes are heap nodes, -l is &l.root.        *)
(***************************************************************************)
EXTENDS Integers, Sequences, FiniteSets, TLC

\* ----------------------------------------------------------------- bounds
MaxKey == 3
MaxVal == 1
MaxCap == 2

\* the concurrent program: goroutines, their keys, the largest capacity
NumThreads == 2
MaxConcKey == 2
MaxConcCap == 1
\* the concurrency tests: the number of keys each goroutine loops over
TestN      == 2
\* the concurrent list program: the calls each goroutine makes
MaxListCalls == 2
\* the construction: the capacities given to NewLRUCache are -MaxNeg..MaxCap
MaxNeg     == 2
\* the lock program: the nodes of the list the goroutines use directly
MaxOther   == 1

Keys      == 1..MaxKey
Threads   == 1..NumThreads
ConcKeys  == 1..MaxConcKey
Values    == 0..MaxVal
MaxNodes  == MaxKey + 1
Node      == 1..MaxNodes

\* ------------------------------------------------------- program constants
\* the nil pointer; also the zero value of V and of the error interface
Nil       == 0
ZeroValue == 0
\* the list owned by the cache (LRUCache.lruList) and a second, unrelated list
CacheList == 1
OtherList == 2
Lists     == {CacheList, OtherList}
\* &l.root, the sentinel embedded in list l
root(l)   == 0 - l
Roots     == {root(l) : l \in Lists}
AllNodes  == Node \cup Roots

ErrRoot       == "can't perform operations with root"
ErrNotInList  == "node should be an element of this list"
ErrIsListElem == "node shouldn't be an element of any list"
ErrNotFound   == "can't delete node as no node has key"
ErrCapacity   == "expected positive number for capacity"
NoErr         == "nil"
NoCall        == [op |-> "none"]
Panic         == "panic: nil pointer dereference"

\* ------------------------------------------------------------------ state
VARIABLES
  next, prev, list, Key, Value,   \* LRUListNode fields, per node
  len,                            \* LRUList.len, per list
  cache, capacity,                \* LRUCache.cache (the index), LRUCache.capacity
  ret,                            \* the call that returned last, with its results
  hist, setval, gone, scen,       \* history of the calls (see "history variables")
  mu,                             \* LRUCache.mu: the thread holding it, or Nil
  pc, call, res,                  \* per thread: statement, running call, last result
  shadow,                         \* the cache had every call run alone, in lock order
  mmu,                            \* Manager.mu: the thread holding it, or Nil
  mpc, marg,                      \* per thread: statement and argument in Manager
  repo,                           \* the order UIDs the repository holds
  prog, via,                      \* the test goroutines: next loop index, call path
  lmu,                            \* LRUList.mu, per list: the thread holding it, or Nil
  running, reader,                \* Consumer.running; Consumer.reader: the reader's number, or Nil
  closed,                         \* the kafka.Readers that were closed
  loops,                          \* the consume goroutines, by the Start that spawned them
  messages, idCounter,            \* InMemoryDeadLetterQueue.messages, .idCounter
  cursor,                         \* the offset of the message fetched last
  groupID,                        \* config.Kafka.GroupID is not blank
  ctx,                            \* the root context of main: "live" or "cancelled"
  gpc,                            \* the goroutines of main: the statement each is at
  errChan,                        \* errChan of main, a channel with a buffer of 2
  server, database,               \* the http.Server and the database pool
  notified, signalled,            \* signal.Notify was called; a signal was sent
  proc,                           \* the process: running, or how it ended
  stopErrors                      \* len(stopErrors) of the shutdown goroutine

listVars  == <<next, prev, list, Key, Value, len>>
cacheVars == <<cache, capacity>>
histVars  == <<hist, setval, gone, scen>>
seqVars   == <<ret, hist, setval, gone, scen>>
thrVars   == <<mu, pc, call, res, shadow>>
svcVars   == <<running, reader, closed, loops, messages, idCounter, cursor,
               groupID, ctx, gpc, errChan, server, database, notified,
               signalled, proc, stopErrors>>
mgrVars   == <<mmu, mpc, marg, repo, prog, via, svcVars, lmu>>
vars      == <<next, prev, list, Key, Value, len, cache, capacity, ret,
               hist, setval, gone, scen, mu, pc, call, res, shadow,
               mmu, mpc, marg, repo, prog, via, lmu,
               running, reader, closed, loops, messages, idCounter, cursor,
               groupID, ctx, gpc, errChan, server, database, notified,
               signalled, proc, stopErrors>>

\* the order service is not part of the program: no consumer, no main
SvcOff ==
  /\ running = FALSE /\ reader = Nil /\ closed = {} /\ loops = <<>>
  /\ messages = <<>> /\ idCounter = 0 /\ cursor = 0 /\ groupID = FALSE
  /\ ctx = "live" /\ gpc = <<>> /\ errChan = <<>> /\ server = "new"
  /\ database = "open" /\ notified = FALSE /\ signalled = FALSE
  /\ proc = "none" /\ stopErrors = 0

\* The program state as one record, so that a method body can be written as
\* a function from state to state and bodies can be composed.
Cur == [next |-> next, prev |-> prev, list |-> list, Key |-> Key,
        Value |-> Value, len |-> len, cache |-> cache, capacity |-> capacity]

\* --------------------------------------------------------------- the list
\* A result of a list method: the state after it, the node and the error it
\* returns.  err = Panic: the method dereferenced nil; the deferred unlocks
\* ran and the state is the one reached before the dereference.
Result(st, node, err) == [st |-> st, node |-> node, err |-> err]

\* a Next that returns the pointer as it is
NodeNext_Raw(st, node) == st.next[node]

\* LRUListNode.Next / LRUListNode.Prev
NodeNext(st, node) ==
  IF st.list[node] # Nil /\ st.next[node] # root(st.list[node])
  THEN st.next[node] ELSE Nil

NodePrev(st, node) ==
  IF st.list[node] # Nil /\ st.prev[node] # root(st.list[node])
  THEN st.prev[node] ELSE Nil

\* NewLRUList: root.next = root.prev = &root, root.list = &l, len = 0
NewLRUList(st, l) ==
  [st EXCEPT !.next[root(l)] = root(l), !.prev[root(l)] = root(l),
             !.list[root(l)] = l, !.len[l] = 0]

\* LRUList.Front / LRUList.Back
Front(st, l) == NodePrev(st, root(l))
Back(st, l)  == NodeNext(st, root(l))

\* LRUList.Size / LRUList.Empty
ListSize(st, l)  == st.len[l]
ListEmpty(st, l) == st.len[l] = 0

\* The heap nodes no pointer of the program refers to: not linked into a
\* list, not a value of the index.  Go's allocator hands out such memory.
Unreferenced(st) ==
  {n \in Node : /\ st.list[n] = Nil
                /\ \A k \in DOMAIN st.cache : st.cache[k] # n
                /\ \A m \in AllNodes : st.next[m] # n /\ st.prev[m] # n}

\* Heap addresses are not observable by the program (nodes are only compared
\* for identity), and memory no pointer refers to is not part of its state.
\* Canon renames the heap nodes of a state in the order in which they are
\* met from the program's roots (the chain root.next of each list, then the
\* index by key) and blanks the unreferenced ones, so that two states that
\* differ only in the addresses the allocator chose are one state.
InSeq(s, x) == \E i \in 1..Len(s) : s[i] = x

RECURSIVE Chain(_, _, _)
Chain(st, from, acc) ==
  LET n == st.next[from]
  IN  IF n = Nil \/ n \in Roots \/ InSeq(acc, n) THEN acc
      ELSE Chain(st, n, Append(acc, n))

RECURSIVE Indexed(_, _, _)
Indexed(st, todo, acc) ==
  IF todo = {} THEN acc
  ELSE LET k == CHOOSE x \in todo : \A y \in todo : x <= y
           n == st.cache[k]
       IN  Indexed(st, todo \ {k},
                   IF n \notin Node \/ InSeq(acc, n) THEN acc ELSE Append(acc, n))

Canon(st) ==
  LET order == Indexed(st, DOMAIN st.cache,
                       Chain(st, root(OtherList), Chain(st, root(CacheList), <<>>)))
      live  == Node \ Unreferenced(st)
      pos(n) == CHOOSE i \in 1..Len(order) : order[i] = n
      at(i)  == IF i \in 1..Len(order) THEN order[i] ELSE Nil
      ren(n) == IF n \in live THEN pos(n) ELSE n
      fld(f, i) == IF i \in Roots THEN ren(f[i])
                   ELSE IF at(i) = Nil THEN Nil ELSE ren(f[at(i)])
  IN  IF live # {order[i] : i \in 1..Len(order)} THEN st
      ELSE [next  |-> [i \in AllNodes |-> fld(st.next, i)],
            prev  |-> [i \in AllNodes |-> fld(st.prev, i)],
            list  |-> [i \in AllNodes |-> IF i \in Roots THEN st.list[i]
                                         ELSE IF at(i) = Nil THEN Nil ELSE st.list[at(i)]],
            Key   |-> [i \in Node |-> IF at(i) = Nil THEN Nil ELSE st.Key[at(i)]],
            Value |-> [i \in Node |-> IF at(i) = Nil THEN ZeroValue ELSE st.Value[at(i)]],
            len   |-> st.len,
            cache |-> [k \in DOMAIN st.cache |-> ren(st.cache[k])],
            capacity |-> st.capacity]

Install(st) ==
  \E c \in {Canon(st)} :
      /\ next' = c.next
      /\ prev' = c.prev
      /\ list' = c.list
      /\ Key' = c.Key
      /\ Value' = c.Value
      /\ len' = c.len
      /\ cache' = c.cache
      /\ capacity' = c.capacity

\* mutant of NewLRUListNode: the value is not stored in the node
NewLRUListNode_NoValue(st, key, value) ==
  LET node == CHOOSE n \in Unreferenced(st) : \A m \in Unreferenced(st) : n <= m
  IN  Result([st EXCEPT !.next[node] = Nil, !.prev[node] = Nil,
                        !.list[node] = Nil, !.Key[node] = key,
                        !.Value[node] = ZeroValue], node, NoErr)

\* NewLRUListNode(key, value, nil, nil, nil)
NewLRUListNode(st, key, value) ==
  LET node == CHOOSE n \in Unreferenced(st) : \A m \in Unreferenced(st) : n <= m
  IN  Result([st EXCEPT !.next[node] = Nil, !.prev[node] = Nil,
                        !.list[node] = Nil, !.Key[node] = key,
                        !.Value[node] = value], node, NoErr)

\* LRUList.insert: link node after at
insert(st, l, node, at) ==
  IF node = Nil THEN Result(st, Nil, Panic)
  ELSE IF st.list[node] # Nil \/ st.next[node] # Nil \/ st.prev[node] # Nil
  THEN Result(st, Nil, ErrIsListElem)
  ELSE IF at = Nil THEN Result(st, Nil, Panic)
  ELSE IF st.list[at] # l THEN Result(st, Nil, ErrNotInList)
  ELSE LET s1 == [st EXCEPT !.list[node] = l]
           nx == s1.next[at]
           s2 == [s1 EXCEPT !.next[at] = node]
           s3 == [s2 EXCEPT !.prev[node] = at]
           s4 == [s3 EXCEPT !.next[node] = nx]
           s5 == [s4 EXCEPT !.prev[nx] = node]
           s6 == [s5 EXCEPT !.len[l] = @ + 1]
       IN  Result(s6, node, NoErr)

\* an Insert that links the node before at
Insert_Before(st, l, key, value, at) ==
  LET n == NewLRUListNode(st, key, value)
  IN  insert(n.st, l, n.node, n.st.prev[at])

\* LRUList.Insert
Insert(st, l, key, value, at) ==
  LET n == NewLRUListNode(st, key, value)
  IN  insert(n.st, l, n.node, at)

\* a pushFront that links the node after the sentinel
pushFront_AfterRoot(st, l, node) == insert(st, l, node, root(l))

\* LRUList.pushFront / LRUList.pushBack
pushFront(st, l, node) == insert(st, l, node, st.prev[root(l)])
pushBack(st, l, node)  == insert(st, l, node, root(l))

\* LRUList.PushFront / LRUList.PushBack: the error of insert is dropped
PushFront(st, l, key, value) ==
  LET n == NewLRUListNode(st, key, value)
      r == pushFront(n.st, l, n.node)
  IN  Result(r.st, r.node, IF r.err = Panic THEN Panic ELSE NoErr)

PushBack(st, l, key, value) ==
  LET n == NewLRUListNode(st, key, value)
      r == pushBack(n.st, l, n.node)
  IN  Result(r.st, r.node, IF r.err = Panic THEN Panic ELSE NoErr)

\* a Remove without the test of the owner of at
Remove_NoOwnerCheck(st, l, at) ==
  IF at = Nil \/ st.prev[at] = Nil \/ st.next[at] = Nil THEN Result(st, Nil, Panic)
  ELSE IF at = root(l) THEN Result(st, Nil, ErrRoot)
  ELSE LET s1 == [st EXCEPT !.next[st.prev[at]] = st.next[at]]
           s2 == [s1 EXCEPT !.prev[s1.next[at]] = s1.prev[at]]
           s3 == [s2 EXCEPT !.next[at] = Nil]
           s4 == [s3 EXCEPT !.prev[at] = Nil]
           s5 == [s4 EXCEPT !.list[at] = Nil]
           s6 == [s5 EXCEPT !.len[l] = @ - 1]
       IN  Result(s6, at, NoErr)

\* a Remove that leaves the owner of the removed node set
Remove_KeepsOwner(st, l, at) ==
  IF at = Nil THEN Result(st, Nil, Panic)
  ELSE IF st.list[at] # l THEN Result(st, Nil, ErrNotInList)
  ELSE IF at = root(l) THEN Result(st, Nil, ErrRoot)
  ELSE LET s1 == [st EXCEPT !.next[st.prev[at]] = st.next[at]]
           s2 == [s1 EXCEPT !.prev[s1.next[at]] = s1.prev[at]]
           s3 == [s2 EXCEPT !.next[at] = Nil]
           s4 == [s3 EXCEPT !.prev[at] = Nil]
           s6 == [s4 EXCEPT !.len[l] = @ - 1]
       IN  Result(s6, at, NoErr)

\* a Remove that unlinks at from its predecessor only
Remove_HalfUnlinked(st, l, at) ==
  IF at = Nil THEN Result(st, Nil, Panic)
  ELSE IF st.list[at] # l THEN Result(st, Nil, ErrNotInList)
  ELSE IF at = root(l) THEN Result(st, Nil, ErrRoot)
  ELSE LET s1 == [st EXCEPT !.next[st.prev[at]] = st.next[at]]
           s3 == [s1 EXCEPT !.next[at] = Nil]
           s4 == [s3 EXCEPT !.prev[at] = Nil]
           s5 == [s4 EXCEPT !.list[at] = Nil]
           s6 == [s5 EXCEPT !.len[l] = @ - 1]
       IN  Result(s6, at, NoErr)

\* a Remove that leaves the length as it was
Remove_NoLen(st, l, at) ==
  IF at = Nil THEN Result(st, Nil, Panic)
  ELSE IF st.list[at] # l THEN Result(st, Nil, ErrNotInList)
  ELSE IF at = root(l) THEN Result(st, Nil, ErrRoot)
  ELSE LET s1 == [st EXCEPT !.next[st.prev[at]] = st.next[at]]
           s2 == [s1 EXCEPT !.prev[s1.next[at]] = s1.prev[at]]
           s5 == [s2 EXCEPT !.next[at] = Nil, !.prev[at] = Nil, !.list[at] = Nil]
       IN  Result(s5, at, NoErr)

\* LRUList.Remove: unlink at and clear its links and its owner
Remove(st, l, at) ==
  IF at = Nil THEN Result(st, Nil, Panic)
  ELSE IF st.list[at] # l THEN Result(st, Nil, ErrNotInList)
  ELSE IF at = root(l) THEN Result(st, Nil, ErrRoot)
  ELSE LET s1 == [st EXCEPT !.next[st.prev[at]] = st.next[at]]
           s2 == [s1 EXCEPT !.prev[s1.next[at]] = s1.prev[at]]
           s3 == [s2 EXCEPT !.next[at] = Nil]
           s4 == [s3 EXCEPT !.prev[at] = Nil]
           s5 == [s4 EXCEPT !.list[at] = Nil]
           s6 == [s5 EXCEPT !.len[l] = @ - 1]
       IN  Result(s6, at, NoErr)

\* mutant of PopBack: the front is removed instead of the back
PopBack_TakesFront(st, l) == Remove(st, l, Front(st, l))

\* LRUList.PopFront / LRUList.PopBack
PopFront(st, l) == Remove(st, l, Front(st, l))
PopBack(st, l)  == Remove(st, l, Back(st, l))

\* mutant of MoveToFront: the node stays where it is
MoveToFront_NoMove(st, l, at) ==
  IF at = Nil THEN Result(st, Nil, Panic) ELSE Result(st, Nil, NoErr)

\* a MoveToFront that unlinks the node and never links it again
MoveToFront_DropsNode(st, l, at) ==
  LET r == Remove(st, l, at)
  IN  Result(r.st, Nil, r.err)

\* LRUList.MoveToFront / LRUList.MoveToBack
MoveToFront(st, l, at) ==
  LET r == Remove(st, l, at)
  IN  IF r.err # NoErr THEN Result(r.st, Nil, r.err)
      ELSE LET p == pushFront(r.st, l, r.node)
           IN  Result(p.st, Nil, p.err)

\* a MoveToBack that links the node at the front
MoveToBack_ToFront(st, l, at) ==
  LET r == Remove(st, l, at)
  IN  IF r.err # NoErr THEN Result(r.st, Nil, r.err)
      ELSE LET p == pushFront(r.st, l, r.node)
           IN  Result(p.st, Nil, p.err)

MoveToBack(st, l, at) ==
  LET r == Remove(st, l, at)
  IN  IF r.err # NoErr THEN Result(r.st, Nil, r.err)
      ELSE LET p == pushBack(r.st, l, r.node)
           IN  Result(p.st, Nil, p.err)

\* -------------------------------------------------------------- the cache
\* go map operations on the index
MapHas(m, k)     == k \in DOMAIN m
MapPut(m, k, n)  == [x \in DOMAIN m \cup {k} |-> IF x = k THEN n ELSE m[x]]
MapDelete(m, k)  == [x \in DOMAIN m \ {k} |-> m[x]]
MapClear         == [x \in {} |-> Nil]

\* NewLRUCache(c) for c >= 0: an empty list, an empty index
NewLRUCache(c) ==
  LET blank == [next |-> [n \in AllNodes |-> Nil], prev |-> [n \in AllNodes |-> Nil],
                list |-> [n \in AllNodes |-> Nil], Key |-> [n \in Node |-> Nil],
                Value |-> [n \in Node |-> ZeroValue], len |-> [l \in Lists |-> 0],
                cache |-> MapClear, capacity |-> c]
  IN  NewLRUList(NewLRUList(blank, CacheList), OtherList)

\* mutant of SetLookup: the node of a present key is left in the list
SetLookup_NoRemove(st, key) == Result(st, Nil, NoErr)

\* LRUCache.Set, lines 32-35: a present key's node is removed from the list
SetLookup(st, key) ==
  IF MapHas(st.cache, key)
  THEN LET r == Remove(st, CacheList, st.cache[key])
       IN  Result(r.st, Nil, IF r.err = Panic THEN Panic ELSE NoErr)
  ELSE Result(st, Nil, NoErr)

\* mutant of SetEvict: the test is Size() > capacity, so nothing is evicted
SetEvict_NeverFull(st) ==
  IF ListSize(st, CacheList) > st.capacity
  THEN LET r == PopBack(st, CacheList)
       IN  IF r.err = Panic \/ r.node = Nil THEN Result(r.st, Nil, Panic)
           ELSE Result([r.st EXCEPT !.cache = MapDelete(@, r.st.Key[r.node])],
                       r.node, NoErr)
  ELSE Result(st, Nil, NoErr)

\* LRUCache.Set, lines 37-40: at capacity the back of the list is popped and
\* its key leaves the index; node.Key of a nil node is a nil dereference
SetEvict(st) ==
  IF ListSize(st, CacheList) = st.capacity
  THEN LET r == PopBack(st, CacheList)
       IN  IF r.err = Panic \/ r.node = Nil THEN Result(r.st, Nil, Panic)
           ELSE Result([r.st EXCEPT !.cache = MapDelete(@, r.st.Key[r.node])],
                       r.node, NoErr)
  ELSE Result(st, Nil, NoErr)

\* LRUCache.Set, lines 42-43: a new front node is pushed and indexed
SetPush(st, key, value) ==
  LET r == PushFront(st, CacheList, key, value)
  IN  IF r.err = Panic THEN Result(r.st, Nil, Panic)
      ELSE Result([r.st EXCEPT !.cache = MapPut(@, key, r.node)], r.node, NoErr)

\* LRUCache.Set as a whole
SetBody(st, key, value) ==
  LET a == SetLookup(st, key)
  IN  IF a.err = Panic THEN a
      ELSE LET b == SetEvict(a.st)
           IN  IF b.err = Panic THEN b
               ELSE SetPush(b.st, key, value)

\* mutant of GetBody: MoveToFront is called without testing ok
GetBody_NoCheck(st, key) ==
  LET node == IF MapHas(st.cache, key) THEN st.cache[key] ELSE Nil
      r == MoveToFront(st, CacheList, node)
  IN  IF r.err = Panic \/ node = Nil
      THEN [st |-> r.st, value |-> ZeroValue, ok |-> FALSE, err |-> Panic]
      ELSE [st |-> r.st, value |-> r.st.Value[node], ok |-> TRUE, err |-> NoErr]

\* LRUCache.Get: a hit moves the node to the front; the error of MoveToFront
\* is dropped
GetBody(st, key) ==
  IF MapHas(st.cache, key)
  THEN LET node == st.cache[key]
           r == MoveToFront(st, CacheList, node)
       IN  IF r.err = Panic \/ node = Nil
           THEN [st |-> r.st, value |-> ZeroValue, ok |-> FALSE, err |-> Panic]
           ELSE [st |-> r.st, value |-> r.st.Value[node], ok |-> TRUE, err |-> NoErr]
  ELSE [st |-> st, value |-> ZeroValue, ok |-> FALSE, err |-> NoErr]

\* mutant of DeleteBody: the key stays in the index
DeleteBody_KeepsIndex(st, key) ==
  IF ~ MapHas(st.cache, key) THEN Result(st, Nil, ErrNotFound)
  ELSE LET r == Remove(st, CacheList, st.cache[key])
       IN  IF r.err = Panic THEN r ELSE Result(r.st, Nil, r.err)

\* a Delete without the test of ok: the node of an absent key is nil
DeleteBody_NoCheck(st, key) ==
  LET r == Remove(st, CacheList, IF MapHas(st.cache, key) THEN st.cache[key] ELSE Nil)
  IN  IF r.err = Panic THEN r
      ELSE Result([r.st EXCEPT !.cache = MapDelete(@, key)], Nil, r.err)

\* a Delete that unlinks the back of the list instead of the key's node
DeleteBody_RemovesBack(st, key) ==
  IF ~ MapHas(st.cache, key) THEN Result(st, Nil, ErrNotFound)
  ELSE LET r == PopBack(st, CacheList)
       IN  IF r.err = Panic THEN r
           ELSE Result([r.st EXCEPT !.cache = MapDelete(@, key)], Nil, r.err)

\* LRUCache.Delete
DeleteBody(st, key) ==
  IF ~ MapHas(st.cache, key) THEN Result(st, Nil, ErrNotFound)
  ELSE LET r == Remove(st, CacheList, st.cache[key])
       IN  IF r.err = Panic THEN r
           ELSE Result([r.st EXCEPT !.cache = MapDelete(@, key)], Nil, r.err)

\* LRUCache.Contains
ContainsBody(st, key) == MapHas(st.cache, key)

\* a Contains that uses the key as Get does
ContainsCall_Promotes(st, key) ==
  [st |-> GetBody(st, key).st, ok |-> ContainsBody(st, key)]

\* LRUCache.Contains, lines 78-79: the index is read and nothing is written
ContainsCall(st, key) == [st |-> st, ok |-> ContainsBody(st, key)]

\* LRUCache.Flush: every indexed node is removed (errors dropped), then the
\* index is cleared
RECURSIVE FlushNodes(_, _)
FlushNodes(st, todo) ==
  IF todo = {} THEN Result(st, Nil, NoErr)
  ELSE LET k == CHOOSE x \in todo : \A y \in todo : x <= y
           r == Remove(st, CacheList, st.cache[k])
       IN  IF r.err = Panic THEN r ELSE FlushNodes(r.st, todo \ {k})

\* a Flush that clears the index and leaves the nodes in the list
FlushBody_NoRemove(st) == Result([st EXCEPT !.cache = MapClear], Nil, NoErr)

FlushBody(st) ==
  LET r == FlushNodes(st, DOMAIN st.cache)
  IN  IF r.err = Panic THEN r
      ELSE Result([r.st EXCEPT !.cache = MapClear], Nil, NoErr)

\* LRUCache.Size / LRUCache.Capacity / LRUCache.Empty
SizeBody(st)     == ListSize(st, CacheList)
CapacityBody(st) == st.capacity
EmptyBody(st)    == ListSize(st, CacheList) = 0

\* ------------------------------------------------------ history variables
\* What a caller can tell from its own calls, recorded beside the program:
\*   hist    the present keys, the one used last (by a Set or by a Get that
\*           hit) first; a key leaves hist when it leaves the index;
\*   setval  for every present key the value of its latest Set;
\*   gone    the keys the last call took out of the index;
\*   scen    how many calls of ScenarioA the calls made so far are, when they
\*           are exactly its first calls on a cache of capacity 2 (else -1).
Without(s, x)  == SelectSeq(s, LAMBDA y : y # x)
Touch(s, x)    == <<x>> \o Without(s, x)
Present(s, m)  == SelectSeq(s, LAMBDA y : y \in DOMAIN m)
Unknown        == 0 - 1
ScenarioA      == << <<"Set", 1>>, <<"Set", 2>>, <<"Get", 1>>, <<"Set", 3>> >>

History(op, key, arg, ok) ==
  /\ hist' = Present(IF (op = "Set" /\ ok) \/ (op = "Get" /\ ok)
                     THEN Touch(hist, key) ELSE hist, cache')
  /\ setval' = [k \in DOMAIN cache' |->
                  IF op = "Set" /\ ok /\ k = key THEN arg
                  ELSE IF k \in DOMAIN setval THEN setval[k] ELSE Unknown]
  /\ gone' = DOMAIN cache \ DOMAIN cache'
  /\ scen' = IF /\ capacity = 2
                /\ scen \in 0..(Len(ScenarioA) - 1)
                /\ ScenarioA[scen + 1] = <<op, key>>
             THEN scen + 1 ELSE 0 - 1

\* ------------------------------------------------ the sequential program
\* One caller; every action is one complete call of a method of LRUCache.
\* found is the method's local ok of its lookup in the index (c.cache[key]).
Ret(op, key, arg, value, ok, err) ==
  [op |-> op, key |-> key, arg |-> arg, value |-> value, ok |-> ok, err |-> err,
   found |-> key \in DOMAIN cache]

\* the state after c, _ := NewLRUCache(capacity), before any call
Constructed(c) ==
  /\ next = NewLRUCache(c).next
  /\ prev = NewLRUCache(c).prev
  /\ list = NewLRUCache(c).list
  /\ Key = NewLRUCache(c).Key
  /\ Value = NewLRUCache(c).Value
  /\ len = NewLRUCache(c).len
  /\ cache = NewLRUCache(c).cache
  /\ capacity = NewLRUCache(c).capacity
  /\ ret = Ret("NewLRUCache", Nil, c, ZeroValue, TRUE, NoErr)
  /\ hist = <<>>
  /\ setval = MapClear
  /\ gone = {}
  /\ scen = 0
  /\ mu = Nil
  /\ pc = [t \in Threads |-> "idle"]
  /\ call = [t \in Threads |-> NoCall]
  /\ res = [t \in Threads |-> NoCall]
  /\ shadow = NewLRUCache(c)
  /\ mmu = Nil
  /\ mpc = [t \in Threads |-> "idle"]
  /\ marg = [t \in Threads |-> Nil]

Init ==
  /\ \E c \in 0..MaxCap : Constructed(c)
  /\ repo = {}
  /\ prog = [t \in Threads |-> 1]
  /\ via = "cache"
  /\ lmu = [l \in Lists |-> Nil]
  /\ SvcOff

Set(key, value) ==
  \E r \in {SetBody(Cur, key, value)} :
      /\ Install(r.st)
      /\ ret' = Ret("Set", key, value, ZeroValue, r.err = NoErr, r.err)
      /\ History("Set", key, value, r.err = NoErr)

Get(key) ==
  \E r \in {GetBody(Cur, key)} :
      /\ Install(r.st)
      /\ ret' = Ret("Get", key, ZeroValue, r.value, r.ok, r.err)
      /\ History("Get", key, ZeroValue, r.ok)

Delete(key) ==
  \E r \in {DeleteBody(Cur, key)} :
      /\ Install(r.st)
      /\ ret' = Ret("Delete", key, ZeroValue, ZeroValue, r.err = NoErr, r.err)
      /\ History("Delete", key, ZeroValue, r.err = NoErr)

Contains(key) ==
  \E r \in {ContainsCall(Cur, key)} :
      /\ Install(r.st)
      /\ ret' = Ret("Contains", key, ZeroValue, ZeroValue, r.ok, NoErr)
      /\ History("Contains", key, ZeroValue, TRUE)

Flush ==
  \E r \in {FlushBody(Cur)} :
      /\ Install(r.st)
      /\ ret' = Ret("Flush", Nil, ZeroValue, ZeroValue, r.err = NoErr, r.err)
      /\ History("Flush", Nil, ZeroValue, r.err = NoErr)

Size ==
  /\ ret' = Ret("Size", Nil, ZeroValue, SizeBody(Cur), TRUE, NoErr)
  /\ UNCHANGED <<listVars, cacheVars>>
  /\ History("Size", Nil, ZeroValue, TRUE)

Capacity ==
  /\ ret' = Ret("Capacity", Nil, ZeroValue, CapacityBody(Cur), TRUE, NoErr)
  /\ UNCHANGED <<listVars, cacheVars>>
  /\ History("Capacity", Nil, ZeroValue, TRUE)

Empty ==
  /\ ret' = Ret("Empty", Nil, ZeroValue, ZeroValue, EmptyBody(Cur), NoErr)
  /\ UNCHANGED <<listVars, cacheVars>>
  /\ History("Empty", Nil, ZeroValue, TRUE)

Call ==
  \/ \E k \in Keys, v \in Values : Set(k, v)
  \/ \E k \in Keys : Get(k)
  \/ \E k \in Keys : Delete(k)
  \/ \E k \in Keys : Contains(k)
  \/ Flush
  \/ Size
  \/ Capacity
  \/ Empty

Next == Call /\ UNCHANGED <<thrVars, mgrVars>>

Spec == Init /\ [][Next]_vars

\* ------------------------------------------------------ the construction
\* a NewLRUCache without the test of the capacity
NewLRUCacheCall_NoCheck(c) == [cache |-> NewLRUCache(c), err |-> NoErr]

\* NewLRUCache, lines 19-25: (nil, error) for a negative capacity, else the
\* new cache and a nil error
NewLRUCacheCall(c) ==
  IF c < 0 THEN [cache |-> Nil, err |-> ErrCapacity]
  ELSE [cache |-> NewLRUCache(c), err |-> NoErr]

\* the state after a NewLRUCache(c) that returned (nil, err): there is no
\* cache and no list, every pointer and field is nil
Unconstructed(c) ==
  /\ next = [n \in AllNodes |-> Nil]
  /\ prev = [n \in AllNodes |-> Nil]
  /\ list = [n \in AllNodes |-> Nil]
  /\ Key = [n \in Node |-> Nil]
  /\ Value = [n \in Node |-> ZeroValue]
  /\ len = [l \in Lists |-> 0]
  /\ cache = MapClear
  /\ capacity = Nil
  /\ ret = [Ret("NewLRUCache", Nil, c, ZeroValue, FALSE, ErrCapacity)
              EXCEPT !.value = Nil]
  /\ hist = <<>>
  /\ setval = MapClear
  /\ gone = {}
  /\ scen = 0 - 1
  /\ mu = Nil
  /\ pc = [t \in Threads |-> "idle"]
  /\ call = [t \in Threads |-> NoCall]
  /\ res = [t \in Threads |-> NoCall]
  /\ shadow = Nil
  /\ mmu = Nil
  /\ mpc = [t \in Threads |-> "idle"]
  /\ marg = [t \in Threads |-> Nil]

\* c, err := NewLRUCache(capacity) for any capacity
InitNew ==
  /\ \E c \in (0 - MaxNeg)..MaxCap :
       \E r \in {NewLRUCacheCall(c)} :
          IF r.err # NoErr THEN Unconstructed(c)
          ELSE /\ Constructed(c)
               /\ Cur = r.cache
  /\ repo = {}
  /\ prog = [t \in Threads |-> 1]
  /\ via = "cache"
  /\ lmu = [l \in Lists |-> Nil]
  /\ SvcOff

\* the caller of NewLRUCache holds a cache: the construction did not fail
Exists == ~ (ret.op = "NewLRUCache" /\ ret.err # NoErr)

\* a caller that was given a cache calls its methods
NextNew == Exists /\ Next

SpecNew == InitNew /\ [][NextNew]_vars

\* ------------------------------------------------ the concurrent program
\* Several goroutines call the methods of one LRUCache.  A method locks c.mu
\* (c.mu.Lock()), runs its statements and returns, which runs the deferred
\* c.mu.Unlock().  Set is run statement by statement; the methods that hold
\* one statement besides the lookup are one step.

\* sync.Mutex: Lock() proceeds when no thread holds the mutex
MutexFree_Always(m) == TRUE

MutexFree(m) == m = Nil

\* the call c run alone on the cache st: the state and the results it gives
Alone(st, c) ==
  CASE c.op = "Set" ->
         LET r == SetBody(st, c.key, c.arg)
         IN  [st |-> Canon(r.st), value |-> ZeroValue, ok |-> r.err = NoErr, err |-> r.err]
    [] c.op = "Get" ->
         LET r == GetBody(st, c.key)
         IN  [st |-> Canon(r.st), value |-> r.value, ok |-> r.ok, err |-> r.err]
    [] c.op = "Delete" ->
         LET r == DeleteBody(st, c.key)
         IN  [st |-> Canon(r.st), value |-> ZeroValue, ok |-> r.err = NoErr, err |-> r.err]
    [] c.op = "Contains" ->
         [st |-> st, value |-> ZeroValue, ok |-> ContainsBody(st, c.key), err |-> NoErr]
    [] c.op = "Flush" ->
         LET r == FlushBody(st)
         IN  [st |-> Canon(r.st), value |-> ZeroValue, ok |-> r.err = NoErr, err |-> r.err]
    [] c.op = "Size" ->
         [st |-> st, value |-> SizeBody(st), ok |-> TRUE, err |-> NoErr]
    [] c.op = "Capacity" ->
         [st |-> st, value |-> CapacityBody(st), ok |-> TRUE, err |-> NoErr]
    [] c.op = "Empty" ->
         [st |-> st, value |-> ZeroValue, ok |-> EmptyBody(st), err |-> NoErr]

Outcome(value, ok, err) == [value |-> value, ok |-> ok, err |-> err]

\* c.mu.Lock() at the head of the method c.op called by thread t
CacheLock(t, c) ==
  /\ pc[t] = "idle"
  /\ MutexFree(mu)
  /\ mu' = t
  /\ pc' = [pc EXCEPT ![t] = c.op]
  /\ \E s \in {Alone(shadow, c)} :
       /\ shadow' = s.st
       /\ call' = [call EXCEPT ![t] = [op |-> c.op, key |-> c.key, arg |-> c.arg,
                                       want |-> Outcome(s.value, s.ok, s.err)]]

\* return: the deferred c.mu.Unlock() runs and the caller has the results
Return(t, value, ok, err) ==
  /\ mu' = Nil
  /\ pc' = [pc EXCEPT ![t] = "idle"]
  /\ call' = [call EXCEPT ![t] = NoCall]
  /\ res' = [res EXCEPT ![t] = [op |-> call[t].op, key |-> call[t].key,
                                arg |-> call[t].arg, want |-> call[t].want,
                                got |-> Outcome(value, ok, err)]]

Goto(t, label) ==
  /\ pc' = [pc EXCEPT ![t] = label]
  /\ UNCHANGED <<mu, call, res>>

\* LRUCache.Set, lines 32-35
SetStep1(t) ==
  /\ pc[t] = "Set"
  /\ \E r \in {SetLookup(Cur, call[t].key)} :
       /\ Install(r.st)
       /\ IF r.err = Panic THEN Return(t, ZeroValue, FALSE, Panic)
          ELSE Goto(t, "Set37")
  /\ UNCHANGED <<shadow, seqVars, mgrVars>>

\* LRUCache.Set, lines 37-40
SetStep2(t) ==
  /\ pc[t] = "Set37"
  /\ \E r \in {SetEvict(Cur)} :
       /\ Install(r.st)
       /\ IF r.err = Panic THEN Return(t, ZeroValue, FALSE, Panic)
          ELSE Goto(t, "Set42")
  /\ UNCHANGED <<shadow, seqVars, mgrVars>>

\* LRUCache.Set, lines 42-44
SetStep3(t) ==
  /\ pc[t] = "Set42"
  /\ \E r \in {SetPush(Cur, call[t].key, call[t].arg)} :
       /\ Install(r.st)
       /\ Return(t, ZeroValue, r.err = NoErr, r.err)
  /\ UNCHANGED <<shadow, seqVars, mgrVars>>

\* LRUCache.Get, lines 51-56
GetStep(t) ==
  /\ pc[t] = "Get"
  /\ \E r \in {GetBody(Cur, call[t].key)} :
       /\ Install(r.st)
       /\ Return(t, r.value, r.ok, r.err)
  /\ UNCHANGED <<shadow, seqVars, mgrVars>>

\* LRUCache.Delete, lines 64-70
DeleteStep(t) ==
  /\ pc[t] = "Delete"
  /\ \E r \in {DeleteBody(Cur, call[t].key)} :
       /\ Install(r.st)
       /\ Return(t, ZeroValue, r.err = NoErr, r.err)
  /\ UNCHANGED <<shadow, seqVars, mgrVars>>

\* LRUCache.Flush, lines 87-90
FlushStep(t) ==
  /\ pc[t] = "Flush"
  /\ \E r \in {FlushBody(Cur)} :
       /\ Install(r.st)
       /\ Return(t, ZeroValue, r.err = NoErr, r.err)
  /\ UNCHANGED <<shadow, seqVars, mgrVars>>

\* LRUCache.Contains, Size, Capacity, Empty: one read and the return
ReadStep(t) ==
  /\ pc[t] \in {"Contains", "Size", "Capacity", "Empty"}
  /\ \E s \in {Alone(Cur, call[t])} : Return(t, s.value, s.ok, s.err)
  /\ UNCHANGED <<listVars, cacheVars, shadow, seqVars, mgrVars>>

\* a goroutine calls a method of the cache; a Set stores the caller's id as
\* the value.  The results of the calls that returned before are dropped.
Calls(t) ==
  {[op |-> o, key |-> k, arg |-> IF o = "Set" THEN t ELSE ZeroValue] :
     o \in {"Set", "Get", "Delete", "Contains"}, k \in ConcKeys}
  \cup {[op |-> o, key |-> Nil, arg |-> ZeroValue] :
     o \in {"Flush", "Size", "Capacity", "Empty"}}

Invoke(t) ==
  /\ \E c \in Calls(t) : CacheLock(t, c)
  /\ res' = [u \in Threads |-> NoCall]
  /\ UNCHANGED <<listVars, cacheVars, seqVars, mgrVars>>

InitConc ==
  /\ \E c \in 0..MaxConcCap : Constructed(c)
  /\ repo = {}
  /\ prog = [t \in Threads |-> 1]
  /\ via = "cache"
  /\ lmu = [l \in Lists |-> Nil]
  /\ SvcOff

NextConc ==
  \E t \in Threads :
    \/ Invoke(t)
    \/ SetStep1(t)
    \/ SetStep2(t)
    \/ SetStep3(t)
    \/ GetStep(t)
    \/ DeleteStep(t)
    \/ FlushStep(t)
    \/ ReadStep(t)

SpecConc == InitConc /\ [][NextConc]_vars

\* --------------------------------------------------------------- Manager
\* internal/cache/manager.go: the connector of the cache and the repository.
\* An order is modelled by its OrderUID; the repository by the set of UIDs
\* it holds, and any call of it may fail (its error is non-nil).

\* Manager.Set, line 50: c.mu.Lock()
ManagerSet(t, uid) ==
  /\ mpc[t] = "idle"
  /\ MutexFree(mmu)
  /\ mmu' = t
  /\ mpc' = [mpc EXCEPT ![t] = "Set52"]
  /\ marg' = [marg EXCEPT ![t] = uid]

\* Manager.Set, lines 52-55: repo.SaveOrder; an error is logged only
ManagerSetSave(t) ==
  /\ mpc[t] = "Set52"
  /\ \E failed \in BOOLEAN : repo' = IF failed THEN repo ELSE repo \cup {marg[t]}
  /\ mpc' = [mpc EXCEPT ![t] = "Set56"]
  /\ UNCHANGED <<mmu, marg, prog, via, svcVars, lmu>>
  /\ UNCHANGED <<listVars, cacheVars, seqVars, thrVars>>

\* Manager.Set, line 56: c.cache.Set(order.OrderUID, order)
ManagerSetCache(t) ==
  /\ mpc[t] = "Set56"
  /\ CacheLock(t, [op |-> "Set", key |-> marg[t], arg |-> marg[t]])
  /\ res' = [res EXCEPT ![t] = NoCall]
  /\ mpc' = [mpc EXCEPT ![t] = "Set57"]
  /\ UNCHANGED <<mmu, marg, repo, prog, via, svcVars, lmu>>
  /\ UNCHANGED <<listVars, cacheVars, seqVars>>

\* Manager.Set / Manager.Get return: the deferred c.mu.Unlock() runs
ManagerReturn(t) ==
  /\ mpc[t] \in {"Set57", "Get77"}
  /\ pc[t] = "idle"
  /\ mmu' = Nil
  /\ mpc' = [mpc EXCEPT ![t] = "idle"]
  /\ marg' = [marg EXCEPT ![t] = Nil]
  /\ UNCHANGED <<repo, prog, via, svcVars, lmu>>
  /\ UNCHANGED <<listVars, cacheVars, seqVars, thrVars>>

\* Manager.Get, line 61: c.mu.Lock()
ManagerGet(t, uid) ==
  /\ mpc[t] = "idle"
  /\ MutexFree(mmu)
  /\ mmu' = t
  /\ mpc' = [mpc EXCEPT ![t] = "Get64"]
  /\ marg' = [marg EXCEPT ![t] = uid]

\* Manager.Get, line 64: c.cache.Get(orderUID)
ManagerGetCache(t) ==
  /\ mpc[t] = "Get64"
  /\ CacheLock(t, [op |-> "Get", key |-> marg[t], arg |-> ZeroValue])
  /\ res' = [res EXCEPT ![t] = NoCall]
  /\ mpc' = [mpc EXCEPT ![t] = "Get65"]
  /\ UNCHANGED <<mmu, marg, repo, prog, via, svcVars, lmu>>
  /\ UNCHANGED <<listVars, cacheVars, seqVars>>

\* Manager.Get, lines 65-74: a hit returns; a miss asks repo.GetOrder, which
\* fails, finds nothing, or finds the order (then line 75 follows)
ManagerGetRepo(t) ==
  /\ mpc[t] = "Get65"
  /\ pc[t] = "idle"
  /\ IF res[t].got.ok THEN mpc' = [mpc EXCEPT ![t] = "Get77"]
     ELSE \E failed \in BOOLEAN :
            mpc' = [mpc EXCEPT ![t] = IF ~ failed /\ marg[t] \in repo
                                      THEN "Get75" ELSE "Get77"]
  /\ UNCHANGED <<mmu, marg, repo, prog, via, svcVars, lmu>>
  /\ UNCHANGED <<listVars, cacheVars, seqVars, thrVars>>

\* Manager.Get, line 75: c.cache.Set(orderUID, node)
ManagerGetFill(t) ==
  /\ mpc[t] = "Get75"
  /\ CacheLock(t, [op |-> "Set", key |-> marg[t], arg |-> marg[t]])
  /\ res' = [res EXCEPT ![t] = NoCall]
  /\ mpc' = [mpc EXCEPT ![t] = "Get77"]
  /\ UNCHANGED <<mmu, marg, repo, prog, via, svcVars, lmu>>
  /\ UNCHANGED <<listVars, cacheVars, seqVars>>

\* ------------------------------------------------- the concurrency tests
\* TestLRUCache_Concurrency and TestManager_Concurrency: one goroutine sets
\* the keys 1..TestN in turn while another gets them in turn, on a cache of
\* a capacity of at least TestN, directly or through a Manager.
Setter == 1
Getter == 2

\* for i := 0; i < N; i++ { l.Set(i, i) }
TestSet ==
  /\ via = "cache"
  /\ prog[Setter] <= TestN
  /\ CacheLock(Setter, [op |-> "Set", key |-> prog[Setter], arg |-> prog[Setter]])
  /\ res' = [res EXCEPT ![Setter] = NoCall]
  /\ prog' = [prog EXCEPT ![Setter] = @ + 1]
  /\ UNCHANGED <<mmu, mpc, marg, repo, via, svcVars, lmu>>
  /\ UNCHANGED <<listVars, cacheVars, seqVars>>

\* for i := 0; i < N; i++ { l.Get(i) }
TestGet ==
  /\ via = "cache"
  /\ prog[Getter] <= TestN
  /\ CacheLock(Getter, [op |-> "Get", key |-> prog[Getter], arg |-> ZeroValue])
  /\ res' = [res EXCEPT ![Getter] = NoCall]
  /\ prog' = [prog EXCEPT ![Getter] = @ + 1]
  /\ UNCHANGED <<mmu, mpc, marg, repo, via, svcVars, lmu>>
  /\ UNCHANGED <<listVars, cacheVars, seqVars>>

\* for i := 0; i < N; i++ { m.Set(ctx, &models.Order{OrderUID: i}) }
TestManagerSet ==
  /\ via = "manager"
  /\ prog[Setter] <= TestN
  /\ ManagerSet(Setter, prog[Setter])
  /\ prog' = [prog EXCEPT ![Setter] = @ + 1]
  /\ UNCHANGED <<repo, via, svcVars, lmu>>
  /\ UNCHANGED <<listVars, cacheVars, seqVars, thrVars>>

\* for i := 0; i < N; i++ { m.Get(ctx, i) }
TestManagerGet ==
  /\ via = "manager"
  /\ prog[Getter] <= TestN
  /\ ManagerGet(Getter, prog[Getter])
  /\ prog' = [prog EXCEPT ![Getter] = @ + 1]
  /\ UNCHANGED <<repo, via, svcVars, lmu>>
  /\ UNCHANGED <<listVars, cacheVars, seqVars, thrVars>>

\* wg.Wait() returns
TestDone ==
  \A t \in {Setter, Getter} :
    prog[t] = TestN + 1 /\ pc[t] = "idle" /\ mpc[t] = "idle"

InitTest ==
  /\ \E c \in TestN..(TestN + 1) : Constructed(c)
  /\ repo \in SUBSET (1..TestN)
  /\ prog = [t \in Threads |-> 1]
  /\ via \in {"cache", "manager"}
  /\ lmu = [l \in Lists |-> Nil]
  /\ SvcOff

NextTest ==
  \/ TestSet
  \/ TestGet
  \/ TestManagerSet
  \/ TestManagerGet
  \/ \E t \in {Setter, Getter} :
       \/ ManagerSetSave(t)
       \/ ManagerSetCache(t)
       \/ ManagerGetCache(t)
       \/ ManagerGetRepo(t)
       \/ ManagerGetFill(t)
       \/ ManagerReturn(t)
       \/ SetStep1(t)
       \/ SetStep2(t)
       \/ SetStep3(t)
       \/ GetStep(t)

SpecTest == InitTest /\ [][NextTest]_vars

\* ------------------------------------------------------- views of a state
\* The keys of the list from the front (used last) to the back, following
\* prev from the sentinel as a caller does with Front() and Prev().
RECURSIVE FromFront(_, _, _)
FromFront(st, node, acc) ==
  IF node = Nil \/ Len(acc) >= MaxNodes THEN acc
  ELSE FromFront(st, NodePrev(st, node), Append(acc, node))

Linked      == FromFront(Cur, Front(Cur, CacheList), <<>>)
Recency     == [i \in 1..Len(Linked) |-> Key[Linked[i]]]
LinkedNodes == {Linked[i] : i \in 1..Len(Linked)}
Attached    == {n \in Node : list[n] # Nil}
Indexes(k)  == k \in DOMAIN cache
CacheSize   == SizeBody(Cur)
ValueOf(k)  == Value[cache[k]]
ValueOfNext(k) == Value'[cache'[k]]

\* ------------------------------------------------------ the list program
\* A caller uses two lists directly, l1 := NewLRUList() and l2 := NewLRUList(),
\* through the public methods of LRUList, one complete call at a time.  The
\* nodes it passes are the ones the lists gave it: a node of the list, a node
\* of the other list, a node that was removed (detached), or &l.root (which
\* code of the package can pass).
\* While a call runs, the node the caller passes is held outside the lists:
\* Holding keeps it from being taken for free memory.
Holding(st, at) == [st EXCEPT !.cache = [x \in {1} |-> at]]
Released(st)    == [st EXCEPT !.cache = MapClear]

\* The list never reads Key or Value of a node: the caller tags a node with
\* the list it builds it for, which tells the nodes of the two lists apart.
ListKeys(l) == {l}

\* what the node a caller passes is to list l
KindOf(st, l, at) ==
  IF at = root(l) THEN "root"
  ELSE IF at \in Roots THEN "other root"
  ELSE IF st.list[at] = l THEN "here"
  ELSE IF st.list[at] = Nil THEN "detached"
  ELSE "other list"

\* the nodes a caller can pass: the attached ones, the sentinels and one
\* detached node (detached nodes do not differ for the list)
Free     == Unreferenced(Cur)
Detached == {n \in Free : \A m \in Free : n <= m}
Args     == Attached \cup Roots \cup Detached
\* memory for a new node besides a detached node the caller holds
Room     == Cardinality(Free) >= 2

\* the nodes of list l from root.next on, as root.next..., up to the sentinel
NodesOf(st, l) == Chain(st, root(l), <<>>)
KeysOf(st, l)  == [i \in 1..Len(NodesOf(st, l)) |-> st.Key[NodesOf(st, l)[i]]]

\* the place of node at in list l, counted from the back (0: not in l)
PlaceOf(st, l, at) ==
  IF InSeq(NodesOf(st, l), at)
  THEN CHOOSE i \in 1..Len(NodesOf(st, l)) : NodesOf(st, l)[i] = at
  ELSE 0

\* what the call returned (err, got: a node and not nil), and what it was
\* given: the list, the kind and the place of the node passed, and the
\* length the list had (was)
ListRet(op, l, key, at, r) ==
  [op |-> op, l |-> l, key |-> key, err |-> r.err, got |-> r.node # Nil,
   kind |-> IF at = Nil THEN "none" ELSE KindOf(Cur, l, at),
   place |-> PlaceOf(Cur, l, at), was |-> len[l]]

\* the state after l1 := NewLRUList(); l2 := NewLRUList(): two empty lists,
\* no cache and no goroutine besides the caller
ListInit ==
  /\ \E st \in {NewLRUList(NewLRUList(NewLRUCache(0), CacheList), OtherList)} :
        /\ next = st.next /\ prev = st.prev /\ list = st.list
        /\ Key = st.Key /\ Value = st.Value /\ len = st.len
        /\ cache = MapClear /\ capacity = 0
  /\ ret = [op |-> "NewLRUList", l |-> Nil, key |-> Nil, err |-> NoErr,
            got |-> TRUE, kind |-> "none", place |-> 0, was |-> 0]
  /\ hist = <<>> /\ setval = MapClear /\ gone = {} /\ scen = 0 - 1
  /\ mu = Nil
  /\ pc = [t \in Threads |-> "idle"]
  /\ call = [t \in Threads |-> NoCall]
  /\ res = [t \in Threads |-> NoCall]
  /\ shadow = Nil
  /\ mmu = Nil
  /\ mpc = [t \in Threads |-> "idle"]
  /\ marg = [t \in Threads |-> Nil]
  /\ repo = {}
  /\ prog = [t \in Threads |-> 1]
  /\ via = "list"
  /\ lmu = [l \in Lists |-> Nil]
  /\ SvcOff

\* the call returns: the state it leaves, and what it returned
ListReturn(op, l, key, at, r) ==
  /\ Install(Released(r.st))
  /\ ret' = ListRet(op, l, key, at, r)
  /\ UNCHANGED <<hist, setval, gone, scen, thrVars, mgrVars>>

CallPushFront(l, key) ==
  /\ Room
  /\ \E r \in {PushFront(Cur, l, key, key)} : ListReturn("PushFront", l, key, Nil, r)

CallPushBack(l, key) ==
  /\ Room
  /\ \E r \in {PushBack(Cur, l, key, key)} : ListReturn("PushBack", l, key, Nil, r)

CallInsert(l, key, at) ==
  /\ Room
  /\ \E r \in {Insert(Holding(Cur, at), l, key, key, at)} :
       ListReturn("Insert", l, key, at, r)

CallRemove(l, at) ==
  \E r \in {Remove(Holding(Cur, at), l, at)} : ListReturn("Remove", l, Nil, at, r)

CallPopFront(l) ==
  \E r \in {PopFront(Cur, l)} : ListReturn("PopFront", l, Nil, Nil, r)

CallPopBack(l) ==
  \E r \in {PopBack(Cur, l)} : ListReturn("PopBack", l, Nil, Nil, r)

CallMoveToFront(l, at) ==
  \E r \in {MoveToFront(Holding(Cur, at), l, at)} :
     ListReturn("MoveToFront", l, Nil, at, r)

CallMoveToBack(l, at) ==
  \E r \in {MoveToBack(Holding(Cur, at), l, at)} :
     ListReturn("MoveToBack", l, Nil, at, r)

ListNext ==
  \E l \in Lists :
    \/ \E k \in ListKeys(l) : CallPushFront(l, k)
    \/ \E k \in ListKeys(l) : CallPushBack(l, k)
    \/ \E k \in ListKeys(l), at \in Args : CallInsert(l, k, at)
    \/ \E at \in Args : CallRemove(l, at)
    \/ CallPopFront(l)
    \/ CallPopBack(l)
    \/ \E at \in Args : CallMoveToFront(l, at)
    \/ \E at \in Args : CallMoveToBack(l, at)

SpecList == ListInit /\ [][ListNext]_vars

\* ------------------------------------------- the concurrent list program
\* Several goroutines call PushFront, PushBack, Remove, PopFront, PopBack,
\* MoveToFront and MoveToBack on one list.  insert and Remove run under
\* l.mu.Lock() and are one step each; Front and Back run under l.mu.RLock()
\* and are one step; the load of l.root.prev in pushFront takes no lock and is
\* a step of its own.  call[t] holds the locals of the running call: node
\* (the node to link, or the node removed) and at (the node passed or read).
\* Each goroutine makes at most MaxListCalls calls (prog counts them).
\* hist counts the calls that returned: the pushes, and the Remove, PopFront
\* and PopBack calls that returned a node.
HeldOf(calls) ==
  [x \in 1..(2 * NumThreads) |->
     LET t == (x + 1) \div 2
     IN  IF calls[t] = NoCall THEN Nil
         ELSE IF x % 2 = 1 THEN calls[t].node ELSE calls[t].at]

\* the list and the locals of the goroutines as one state
LCur == [Cur EXCEPT !.cache = HeldOf(call)]

\* the step leaves the heap st and the locals calls
ListInstall(st, calls) ==
  \E c \in {Canon([st EXCEPT !.cache = HeldOf(calls)])} :
      /\ next' = c.next /\ prev' = c.prev /\ list' = c.list
      /\ Key' = c.Key /\ Value' = c.Value /\ len' = c.len
      /\ call' = [t \in Threads |->
                    IF calls[t] = NoCall THEN NoCall
                    ELSE [calls[t] EXCEPT !.node = c.cache[2 * t - 1],
                                          !.at = c.cache[2 * t]]]
      /\ UNCHANGED <<cache, capacity>>

ListFrame == UNCHANGED <<ret, setval, gone, scen, mu, shadow, mgrVars>>

\* a goroutine starts a call: prog counts it
Start(t, op, node, at, label, st) ==
  /\ pc[t] = "idle"
  /\ prog[t] <= MaxListCalls
  /\ ListInstall(st, [call EXCEPT ![t] = [op |-> op, node |-> node, at |-> at]])
  /\ pc' = [pc EXCEPT ![t] = label]
  /\ res' = [res EXCEPT ![t] = NoCall]
  /\ hist' = hist
  /\ UNCHANGED <<ret, setval, gone, scen, mu, shadow, mmu, mpc, marg, repo, via, svcVars, lmu>>
  /\ prog' = [prog EXCEPT ![t] = @ + 1]

\* a call returns node and err; inner is the error insert or Remove gave it
FinishWith(t, st, node, err, inner) ==
  /\ ListInstall(st, [call EXCEPT ![t] = NoCall])
  /\ pc' = [pc EXCEPT ![t] = "idle"]
  /\ res' = [res EXCEPT ![t] =
               [op |-> call[t].op, err |-> err, got |-> node # Nil,
                linked |-> node # Nil /\ st.list[node] = CacheList,
                inner |-> inner]]
  /\ hist' = [pushes  |-> hist.pushes
                            + (IF call[t].op \in {"PushFront", "PushBack"} THEN 1 ELSE 0),
              removed |-> hist.removed
                            + (IF /\ call[t].op \in {"Remove", "PopFront", "PopBack"}
                                  /\ err = NoErr THEN 1 ELSE 0)]
  /\ ListFrame

Finish(t, st, node, err) == FinishWith(t, st, node, err, err)

\* a call goes on to its next statement
Continue(t, st, node, at, label) ==
  /\ ListInstall(st, [call EXCEPT ![t] = [@ EXCEPT !.node = node, !.at = at]])
  /\ pc' = [pc EXCEPT ![t] = label]
  /\ UNCHANGED <<res, hist>>
  /\ ListFrame

\* PushFront, line 170: node := NewLRUListNode(key, value, nil, nil, nil)
GoPushFront(t, key) ==
  /\ Cardinality(Unreferenced(LCur)) >= 1
  /\ \E n \in {NewLRUListNode(LCur, key, key)} :
       Start(t, "PushFront", n.node, Nil, "pushFront", n.st)

\* PushBack, line 183; pushBack passes &l.root to insert
GoPushBack(t, key) ==
  /\ Cardinality(Unreferenced(LCur)) >= 1
  /\ \E n \in {NewLRUListNode(LCur, key, key)} :
       Start(t, "PushBack", n.node, root(CacheList), "insert", n.st)

\* Remove(at), MoveToFront(at), MoveToBack(at) with a node the goroutine got
\* from the list
GoRemove(t, at)      == Start(t, "Remove", Nil, at, "Remove", LCur)
GoMoveToFront(t, at) == Start(t, "MoveToFront", Nil, at, "Remove", LCur)
GoMoveToBack(t, at)  == Start(t, "MoveToBack", Nil, at, "Remove", LCur)
GoPopFront(t)        == Start(t, "PopFront", Nil, Nil, "Front", LCur)
GoPopBack(t)         == Start(t, "PopBack", Nil, Nil, "Back", LCur)

\* pushFront, line 165: l.root.prev.Load(), before insert takes the lock
StepLoadFront(t) ==
  /\ pc[t] = "pushFront"
  /\ Continue(t, LCur, call[t].node, prev[root(CacheList)], "insert")

\* PopFront, line 214: l.Front();  PopBack, line 219: l.Back()
StepFront(t) ==
  /\ pc[t] = "Front"
  /\ Continue(t, LCur, Nil, Front(LCur, CacheList), "Remove")

StepBack(t) ==
  /\ pc[t] = "Back"
  /\ Continue(t, LCur, Nil, Back(LCur, CacheList), "Remove")

\* Remove, lines 189-210, under the write lock; MoveToFront and MoveToBack go
\* on with the node removed, or return Remove's error
StepRemove(t) ==
  /\ pc[t] = "Remove"
  /\ \E r \in {Remove(LCur, CacheList, call[t].at)} :
       IF call[t].op \in {"Remove", "PopFront", "PopBack"} \/ r.err # NoErr
       THEN Finish(t, r.st, r.node, r.err)
       ELSE IF call[t].op = "MoveToFront"
       THEN Continue(t, r.st, r.node, Nil, "pushFront")
       ELSE Continue(t, r.st, r.node, root(CacheList), "insert")

\* insert, lines 133-155, under the write lock; PushFront and PushBack return
\* the node and drop the error
StepInsert(t) ==
  /\ pc[t] = "insert"
  /\ \E r \in {insert(LCur, CacheList, call[t].node, call[t].at)} :
       FinishWith(t, r.st, r.node,
                  IF call[t].op \in {"PushFront", "PushBack"} /\ r.err # Panic
                  THEN NoErr ELSE r.err,
                  r.err)

ListConcInit ==
  /\ \E st \in {NewLRUList(NewLRUList(NewLRUCache(0), CacheList), OtherList)} :
        /\ next = st.next /\ prev = st.prev /\ list = st.list
        /\ Key = st.Key /\ Value = st.Value /\ len = st.len
        /\ cache = MapClear /\ capacity = 0
  /\ ret = [op |-> "NewLRUList"]
  /\ hist = [pushes |-> 0, removed |-> 0]
  /\ setval = MapClear /\ gone = {} /\ scen = 0 - 1
  /\ mu = Nil
  /\ pc = [t \in Threads |-> "idle"]
  /\ call = [t \in Threads |-> NoCall]
  /\ res = [t \in Threads |-> NoCall]
  /\ shadow = Nil
  /\ mmu = Nil
  /\ mpc = [t \in Threads |-> "idle"]
  /\ marg = [t \in Threads |-> Nil]
  /\ repo = {}
  /\ prog = [t \in Threads |-> 1]
  /\ via = "list"
  /\ lmu = [l \in Lists |-> Nil]
  /\ SvcOff

ListConcNext ==
  \E t \in Threads :
    \/ \E k \in ConcKeys : GoPushFront(t, k)
    \/ \E k \in ConcKeys : GoPushBack(t, k)
    \/ \E at \in Attached : GoRemove(t, at)
    \/ \E at \in Attached : GoMoveToFront(t, at)
    \/ \E at \in Attached : GoMoveToBack(t, at)
    \/ GoPopFront(t)
    \/ GoPopBack(t)
    \/ StepLoadFront(t)
    \/ StepFront(t)
    \/ StepBack(t)
    \/ StepRemove(t)
    \/ StepInsert(t)

SpecListConc == ListConcInit /\ [][ListConcNext]_vars

\* every goroutine has returned from its calls
ListQuiet == \A t \in Threads : pc[t] = "idle"

\* ------------------------------------------------------------------ claims

\* C1: after every call 0 <= Size() <= Capacity(), Capacity() is the capacity
\* the cache was constructed with, and a Set of a new key on a full cache
\* leaves Size() equal to Capacity().
C1_SizeWithinCapacity ==
  /\ [](0 <= CacheSize /\ CacheSize <= capacity /\ capacity \in 0..MaxCap)
  /\ [][/\ capacity' = capacity
        /\ (ret'.op = "Capacity" => ret'.value = capacity)
        /\ (ret'.op = "Size" => ret'.value = CacheSize)
        /\ (ret'.op = "Set" /\ ~ Indexes(ret'.key) /\ CacheSize = capacity
              => CacheSize' = capacity)]_vars

C1_Witness ==
  /\ ret.op = "Set" /\ ~ ret.found /\ gone # {}
  /\ capacity = MaxCap /\ CacheSize = capacity

\* C2: the index and the list agree: as many keys as nodes, every indexed key
\* maps to a node linked in the cache's list that holds that key, and every
\* linked node is the target of exactly one index entry.
C2_IndexMatchesList ==
  /\ Cardinality(DOMAIN cache) = len[CacheList]
  /\ Len(Linked) = len[CacheList]
  /\ \A k \in DOMAIN cache :
       /\ cache[k] \in LinkedNodes
       /\ list[cache[k]] = CacheList
       /\ Key[cache[k]] = k
  /\ \A n \in LinkedNodes : Cardinality({k \in DOMAIN cache : cache[k] = n}) = 1
  /\ \A n \in Attached : list[n] = CacheList => n \in LinkedNodes

\* a full cache after an eviction
C2_Witness ==
  /\ Cardinality(DOMAIN cache) = MaxCap /\ len[CacheList] = MaxCap
  /\ gone # {} /\ MaxCap >= 2

\* C3: with capacity >= 1, a Set of an absent key on a full cache removes
\* exactly one key, the present key whose latest use (Set or Get hit) is the
\* oldest, which is the key at the back of the list; every other key stays
\* with its value.
C3_EvictsLeastRecentlyUsed ==
  [][(ret'.op = "Set" /\ capacity >= 1 /\ ~ Indexes(ret'.key) /\ CacheSize = capacity)
       => /\ Len(hist) = capacity
          /\ hist[Len(hist)] = Key[Back(Cur, CacheList)]
          /\ gone' = {hist[Len(hist)]}
          /\ DOMAIN cache' = (DOMAIN cache \ {hist[Len(hist)]}) \cup {ret'.key}
          /\ \A k \in DOMAIN cache \ {hist[Len(hist)]} : ValueOfNext(k) = ValueOf(k)
          /\ Recency' = <<ret'.key>> \o SubSeq(Recency, 1, Len(Recency) - 1)]_vars

\* capacity + 1 = 3 distinct keys were set in the order 1, 2, 3: key 1 is gone
C3_Witness ==
  /\ capacity = 2 /\ ret.op = "Set" /\ ret.key = 3
  /\ gone = {1} /\ hist = <<3, 2>>

\* C4: a Get that hits returns the value and makes the key the front of the
\* list, leaving the order of the other keys and Size() as they were; hence
\* Set(1); Set(2); Get(1); Set(3) on a cache of capacity 2 leaves keys 1 and 3.
C4_GetHitPromotes ==
  /\ [][(ret'.op = "Get" /\ Indexes(ret'.key))
          => /\ ret'.ok /\ ret'.err = NoErr
             /\ ret'.value = ValueOf(ret'.key)
             /\ Recency' = Touch(Recency, ret'.key)
             /\ Key'[Front(Cur, CacheList)'] = ret'.key
             /\ CacheSize' = CacheSize
             /\ DOMAIN cache' = DOMAIN cache
             /\ \A k \in DOMAIN cache : ValueOfNext(k) = ValueOf(k)]_vars
  /\ [](scen = Len(ScenarioA)
          => /\ Indexes(1) /\ ~ Indexes(2) /\ Indexes(3)
             /\ CacheSize = 2)

C4_Witness == scen = Len(ScenarioA) /\ Recency = <<3, 1>>

\* C5: Get of a present key returns (v, true) with v the value of the latest
\* Set of that key; Get of an absent key returns (zero, false).
C5_GetReturnsLatestSet ==
  /\ [](\A k \in DOMAIN cache : k \in DOMAIN setval /\ ValueOf(k) = setval[k])
  /\ [][ret'.op = "Get"
          => IF Indexes(ret'.key)
             THEN ret'.ok /\ ret'.value = setval[ret'.key]
             ELSE ~ ret'.ok /\ ret'.value = ZeroValue]_vars

\* a hit on a key that is not the one set last, with a non-zero value
C5_Witness ==
  /\ ret.op = "Get" /\ ret.ok /\ ret.value = MaxVal
  /\ CacheSize = 2 /\ \E k \in DOMAIN cache : k # ret.key /\ ValueOf(k) # ret.value

\* C6: on a cache of capacity 0 every Set completes normally and leaves the
\* key absent and Size() = 0.
C6_ZeroCapacitySetCompletes ==
  (capacity = 0 /\ ret.op = "Set")
    => ret.err = NoErr /\ ~ Indexes(ret.key) /\ CacheSize = 0

\* C7: a Set of a present key replaces: Size() and the set of keys are
\* unchanged, nothing is evicted, the key holds the new value and is the
\* front of the list, and exactly one attached node holds the key.
C7_SetPresentReplaces ==
  [][(ret'.op = "Set" /\ Indexes(ret'.key))
       => /\ ret'.err = NoErr
          /\ CacheSize' = CacheSize
          /\ DOMAIN cache' = DOMAIN cache
          /\ gone' = {}
          /\ ValueOfNext(ret'.key) = ret'.arg
          /\ \A k \in DOMAIN cache \ {ret'.key} : ValueOfNext(k) = ValueOf(k)
          /\ Recency' = Touch(Recency, ret'.key)
          /\ Cardinality({n \in Attached' : Key'[n] = ret'.key}) = 1
          /\ Cardinality(Attached') = CacheSize']_vars

\* a full cache of capacity 2 whose back key was set again with another value
C7_Witness ==
  /\ ret.op = "Set" /\ ret.found /\ ret.err = NoErr
  /\ capacity = 2 /\ CacheSize = 2 /\ gone = {}
  /\ ret.arg = MaxVal

\* C10: a Get of an absent key returns (zero, false) and changes neither the
\* index nor the list (keys, values, order, Size()).
C10_GetMissChangesNothing ==
  [][(ret'.op = "Get" /\ ~ Indexes(ret'.key))
       => /\ ~ ret'.ok /\ ret'.value = ZeroValue /\ ret'.err = NoErr
          /\ UNCHANGED <<listVars, cacheVars>>
          /\ Recency' = Recency
          /\ hist' = hist]_vars

C10_Witness ==
  /\ ret.op = "Get" /\ ~ ret.ok /\ ~ ret.found
  /\ CacheSize = MaxCap

\* C8: every call is atomic: the results of each call are those it gives when
\* the calls run one at a time in the order in which they took the lock (a
\* point between a call's start and its return), and whenever no thread
\* holds the lock the cache is the one those sequential runs leave, with
\* 0 <= Size() <= capacity, as many index entries as list nodes and no key
\* held by two nodes.
C8_CallsAreAtomic ==
  /\ \A t \in Threads : res[t] # NoCall => res[t].got = res[t].want
  /\ mu = Nil =>
       /\ Cur = shadow
       /\ 0 <= CacheSize /\ CacheSize <= capacity
       /\ Cardinality(DOMAIN cache) = len[CacheList]
       /\ \A n, m \in Attached : Key[n] = Key[m] => n = m
       /\ \A k \in DOMAIN cache : cache[k] \in Attached /\ Key[cache[k]] = k

\* thread 2 got, by a Get that hit, the value thread 1 had set
C8_Witness ==
  /\ mu = Nil
  /\ res[2] # NoCall /\ res[2].op = "Get" /\ res[2].got.ok /\ res[2].got.value = 1

\* C9: when the goroutine setting the keys 1..TestN and the goroutine getting
\* them have both finished on a cache of capacity >= TestN, called directly
\* or through the Manager, Size() is exactly TestN and the keys 1..TestN are
\* present; at no moment does the cache hold more nodes than keys were set.
C9_ConcurrentSetGetKeepsAll ==
  /\ TestDone => /\ CacheSize = TestN
                 /\ DOMAIN cache = 1..TestN
                 /\ Len(Linked) = TestN
  /\ mu = Nil => /\ CacheSize = Cardinality(DOMAIN cache)
                 /\ Len(Linked) = CacheSize

\* both goroutines are done, through the Manager, and the last Get missed
\* the cache, found the order in the repository and filled the cache with it
C9_Witness ==
  /\ TestDone /\ via = "manager" /\ CacheSize = TestN
  /\ res[Getter] # NoCall /\ res[Getter].op = "Set"

\* C11: Contains, Size, Capacity and Empty change neither the index nor the
\* list (keys, values, order) and return what the state holds; Contains of a
\* present key does not promote it: on a cache of capacity 2 whose keys 1 and
\* 2 were used in that order, Contains(1) followed by Set(3) evicts key 1.
C11_ReadsChangeNothing ==
  /\ [][ret'.op \in {"Contains", "Size", "Capacity", "Empty"}
          => /\ UNCHANGED <<listVars, cacheVars>>
             /\ Recency' = Recency
             /\ hist' = hist
             /\ ret'.err = NoErr
             /\ (ret'.op = "Contains" => ret'.ok = Indexes(ret'.key))
             /\ (ret'.op = "Size" => ret'.value = Cardinality(DOMAIN cache))
             /\ (ret'.op = "Capacity" => ret'.value = capacity)
             /\ (ret'.op = "Empty" => ret'.ok = (DOMAIN cache = {}))]_vars
  /\ [][(/\ capacity = 2 /\ hist = <<2, 1>>
         /\ ret.op = "Contains" /\ ret.key = 1 /\ ret.ok
         /\ ret'.op = "Set" /\ ret'.key = 3)
          => gone' = {1} /\ Recency' = <<3, 2>>]_vars

\* Contains(1) has returned true on a full cache of capacity 2 whose key 1 is
\* the least recently used: the next Set of a new key evicts key 1
C11_Witness ==
  /\ capacity = 2 /\ ret.op = "Contains" /\ ret.key = 1 /\ ret.ok
  /\ hist = <<2, 1>> /\ Recency = <<2, 1>>

\* C12: a Delete of an absent key returns the not-found error and changes
\* neither the index nor the list: Size(), the keys, their values and the
\* recency order are as before.
C12_DeleteAbsentNotFound ==
  [][(ret'.op = "Delete" /\ ~ Indexes(ret'.key))
       => /\ ret'.err = ErrNotFound
          /\ UNCHANGED <<listVars, cacheVars>>
          /\ CacheSize' = CacheSize
          /\ Recency' = Recency
          /\ hist' = hist
          /\ gone' = {}]_vars

\* a Delete of an absent key on a full cache
C12_Witness ==
  /\ ret.op = "Delete" /\ ~ ret.found /\ ret.err = ErrNotFound
  /\ CacheSize = MaxCap /\ MaxCap >= 1

\* C13: a Delete of a present key returns no error and removes exactly that
\* key: Size() drops by 1, the other keys keep their values and their
\* relative order; a Get or a Contains of the key that follows misses; a
\* Delete of the only key leaves the cache empty, and Empty() is true exactly
\* when Size() = 0.
C13_DeletePresentRemovesOne ==
  /\ [][(ret'.op = "Delete" /\ Indexes(ret'.key))
          => /\ ret'.err = NoErr
             /\ CacheSize' = CacheSize - 1
             /\ DOMAIN cache' = DOMAIN cache \ {ret'.key}
             /\ gone' = {ret'.key}
             /\ \A k \in DOMAIN cache' : ValueOfNext(k) = ValueOf(k)
             /\ Recency' = Without(Recency, ret'.key)
             /\ Cardinality(Attached') = CacheSize'
             /\ (CacheSize = 1 => EmptyBody(Cur)')]_vars
  /\ [][(ret.op = "Delete" /\ ret.err = NoErr /\ ret'.key = ret.key)
          => /\ (ret'.op = "Get" => ~ ret'.ok /\ ret'.value = ZeroValue)
             /\ (ret'.op = "Contains" => ~ ret'.ok)]_vars
  /\ [](EmptyBody(Cur) <=> CacheSize = 0)
  /\ [](ret.op = "Empty" => (ret.ok <=> CacheSize = 0))

\* one of the two keys of a full cache of capacity 2 was deleted, the smaller
\* key stays
C13_Witness ==
  /\ ret.op = "Delete" /\ ret.found /\ ret.err = NoErr
  /\ capacity = 2 /\ CacheSize = 1 /\ Len(Recency) = 1
  /\ gone # {} /\ \A k \in gone : k > Recency[1]

\* C14: from every reachable state Flush empties the cache: Size() = 0,
\* Empty() is true, no key is contained, the sentinel points to itself, every
\* node that was in the list has no owner and no links, the capacity is the
\* same, and the cache is the one NewLRUCache gives, so that a Set or a Get
\* that follows does what it does on a fresh cache.
C14_FlushEmpties ==
  /\ [](\E f \in {FlushBody(Cur)} :
          /\ f.err = NoErr
          /\ SizeBody(f.st) = 0 /\ EmptyBody(f.st)
          /\ \A k \in Keys : ~ ContainsBody(f.st, k)
          /\ f.st.next[root(CacheList)] = root(CacheList)
          /\ f.st.prev[root(CacheList)] = root(CacheList)
          /\ \A n \in Attached :
               f.st.list[n] = Nil /\ f.st.next[n] = Nil /\ f.st.prev[n] = Nil
          /\ CapacityBody(f.st) = capacity
          /\ Canon(f.st) = NewLRUCache(capacity)
          /\ \A k \in Keys :
               /\ GetBody(f.st, k).ok = FALSE
               /\ \A v \in Values :
                    /\ SetBody(f.st, k, v).err = SetBody(NewLRUCache(capacity), k, v).err
                    /\ Canon(SetBody(f.st, k, v).st)
                         = Canon(SetBody(NewLRUCache(capacity), k, v).st))
  /\ [][ret'.op = "Flush"
          => /\ ret'.err = NoErr
             /\ Cur' = NewLRUCache(capacity)
             /\ CacheSize' = 0 /\ DOMAIN cache' = {} /\ Recency' = <<>>
             /\ gone' = DOMAIN cache
             /\ capacity' = capacity]_vars

\* a full cache was flushed
C14_Witness ==
  /\ ret.op = "Flush" /\ ret.err = NoErr
  /\ Cardinality(gone) = MaxCap /\ MaxCap >= 2 /\ CacheSize = 0

\* C15: NewLRUCache with a negative capacity returns an error and no cache
\* (nothing was built); with a capacity of 0 or more it returns no error and
\* an empty cache whose Capacity() is the argument.
C15_ConstructionChecksCapacity ==
  ret.op = "NewLRUCache"
    => IF ret.arg < 0
       THEN /\ ret.err = ErrCapacity /\ ret.value = Nil /\ ~ Exists
            /\ \A n \in AllNodes : list[n] = Nil /\ next[n] = Nil /\ prev[n] = Nil
            /\ DOMAIN cache = {}
       ELSE /\ ret.err = NoErr /\ Exists
            /\ CapacityBody(Cur) = ret.arg
            /\ SizeBody(Cur) = 0 /\ EmptyBody(Cur)
            /\ DOMAIN cache = {} /\ Recency = <<>>
            /\ Front(Cur, CacheList) = Nil /\ Back(Cur, CacheList) = Nil

\* NewLRUCache(-1) has returned its error
C15_Witness == ret.op = "NewLRUCache" /\ ret.arg = 0 - 1 /\ ret.err = ErrCapacity

\* C16: after every call of PushFront, PushBack, Insert, Remove, PopFront,
\* PopBack, MoveToFront and MoveToBack, whether it succeeded or failed, in
\* each list every node n owned by the list has n.next.prev = n and
\* n.prev.next = n (and so has the sentinel), len is the number of nodes
\* reached from the sentinel, and the list is empty exactly when
\* root.next = root.prev = &root and len = 0.
C16_ListWellFormed ==
  \A l \in Lists :
    /\ \A n \in {m \in AllNodes : list[m] = l} :
         /\ next[n] # Nil /\ prev[n] # Nil
         /\ prev[next[n]] = n
         /\ next[prev[n]] = n
    /\ len[l] = Len(NodesOf(Cur, l))
    /\ len[l] = Cardinality({m \in Node : list[m] = l})
    /\ (Len(NodesOf(Cur, l)) = 0)
         <=> (next[root(l)] = root(l) /\ prev[root(l)] = root(l) /\ len[l] = 0)
    /\ ListEmpty(Cur, l) <=> Len(NodesOf(Cur, l)) = 0

\* a node was removed from the middle of a list of three nodes
C16_Witness ==
  /\ ret.op = "Remove" /\ ret.err = NoErr
  /\ ret.was = 3 /\ ret.place = 2 /\ len[ret.l] = 2

\* C17: a node is owned by list l exactly when it is reached from l's
\* sentinel, and then once (the walk by next from the sentinel meets every
\* owned node once and comes back to the sentinel); a node without owner has
\* no links; no node is reached from both sentinels; a node a Remove or a Pop
\* returns has no owner and no links and is reached from no sentinel, a
\* failed Remove leaves the owner as it was, and insert refuses a node that
\* is attached.
C17_NodeOwnership ==
  /\ \A l \in Lists :
       /\ \A n \in Node : list[n] = l <=> InSeq(NodesOf(Cur, l), n)
       /\ \A i, j \in 1..Len(NodesOf(Cur, l)) :
            NodesOf(Cur, l)[i] = NodesOf(Cur, l)[j] => i = j
       /\ next[IF len[l] = 0 THEN root(l) ELSE NodesOf(Cur, l)[len[l]]] = root(l)
  /\ \A n \in Node : list[n] = Nil => next[n] = Nil /\ prev[n] = Nil
  /\ \A n \in Node :
       ~ (InSeq(NodesOf(Cur, CacheList), n) /\ InSeq(NodesOf(Cur, OtherList), n))
  /\ \A l \in Lists :
       /\ \A at \in Args :
            \E r \in {Remove(Holding(Cur, at), l, at)} :
               IF r.err = NoErr
               THEN /\ r.node = at /\ list[at] = l
                    /\ r.st.list[at] = Nil /\ r.st.next[at] = Nil /\ r.st.prev[at] = Nil
                    /\ \A m \in Lists : ~ InSeq(NodesOf(r.st, m), at)
               ELSE r.st.list = list
       /\ \A r \in {PopFront(Cur, l), PopBack(Cur, l)} :
            r.err = NoErr
              => /\ r.st.list[r.node] = Nil
                 /\ r.st.next[r.node] = Nil /\ r.st.prev[r.node] = Nil
                 /\ \A m \in Lists : ~ InSeq(NodesOf(r.st, m), r.node)
       /\ \A n \in Attached :
            /\ insert(Cur, l, n, root(l)).err = ErrIsListElem
            /\ insert(Cur, l, n, root(l)).st = Cur

\* both lists hold nodes and a MoveToFront has just moved the back node of
\* one of them to its front
C17_Witness ==
  /\ ret.op = "MoveToFront" /\ ret.err = NoErr
  /\ len[CacheList] >= 1 /\ len[OtherList] >= 1
  /\ ret.place = 1 /\ ret.was >= 2

\* C18: PopFront and PopBack of an empty list return ErrRoot as a value (no
\* panic) and leave the list empty with len 0.
C18_PopEmptyReturnsErrRoot ==
  (ret.op \in {"PopFront", "PopBack"} /\ ret.was = 0)
    => ret.err = ErrRoot /\ ~ ret.got /\ len[ret.l] = 0

\* C19: Remove, MoveToFront and MoveToBack of a node that is detached or
\* owned by another list return ErrNotInList, and of the list's sentinel
\* ErrRoot; Insert after a node that is detached or owned by another list
\* returns ErrNotInList; each such call leaves every list (order, nodes,
\* len) and the owner of every node as they were.
C19_BadNodeFailsWithoutEffect ==
  /\ [][((/\ ret'.op \in {"Remove", "MoveToFront", "MoveToBack", "Insert"}
          /\ ret'.kind \in {"detached", "other list", "other root"})
            => (/\ ret'.err = ErrNotInList /\ ~ ret'.got
                /\ UNCHANGED listVars
                /\ \A l \in Lists : KeysOf(Cur, l)' = KeysOf(Cur, l)))
        /\
         ((/\ ret'.op \in {"Remove", "MoveToFront", "MoveToBack"}
           /\ ret'.kind = "root")
            => (/\ ret'.err = ErrRoot /\ ~ ret'.got
                /\ UNCHANGED listVars
                /\ \A l \in Lists : KeysOf(Cur, l)' = KeysOf(Cur, l)))]_vars
  /\ [](\A l \in Lists, at \in Args :
          KindOf(Cur, l, at) # "here"
            => \E h \in {Holding(Cur, at)} :
                 /\ Remove(h, l, at).st = h
                 /\ MoveToFront(h, l, at).st = h
                 /\ MoveToBack(h, l, at).st = h
                 /\ (KindOf(Cur, l, at) # "root" /\ Room)
                      => \A k \in ListKeys(l) :
                           /\ Insert(h, l, k, k, at).err = ErrNotInList
                           /\ Canon(Released(Insert(h, l, k, k, at).st)) = Cur)

\* MoveToBack was called on one list with a node of the other list
C19_Witness ==
  /\ ret.op = "MoveToBack" /\ ret.kind = "other list" /\ ret.err = ErrNotInList
  /\ len[CacheList] >= 1 /\ len[OtherList] >= 1

\* C20: when goroutines call the list methods concurrently, every PushFront
\* and PushBack returns a node that the call linked into the list, and once
\* all calls have returned Size() is the number of push calls minus the
\* number of Remove, PopFront and PopBack calls that returned a node.
C20_ConcurrentPushAttaches ==
  /\ \A t \in Threads :
       (res[t] # NoCall /\ res[t].op \in {"PushFront", "PushBack"})
         => res[t].got /\ res[t].linked
  /\ ListQuiet => ListSize(Cur, CacheList) = hist.pushes - hist.removed

\* ------------------------------------------- the list, store by store
\* One goroutine (Mutator) calls PushFront, PushBack and Remove on the list
\* CacheList; insert and Remove run under the write lock l.mu (lmu holds the
\* goroutine that has it) and every atomic Store of theirs is a step.  The
\* other goroutines read: Next() and Prev() of a node take no lock, so each
\* atomic Load of theirs is a step; Front(), Back(), Size() and Empty() take
\* the read lock, which no goroutine gets while the write lock is held.
\* call[t] holds the locals of the running call: node, at, nx (insert's
\* next) and i (the store to make next).  res[t] is the last result of t,
\* and seen the last Size() it got.
Mutator == 1
Readers == Threads \ {Mutator}

RLockFree_Always(m) == TRUE

\* l.mu.RLock() succeeds when no goroutine holds the write lock
RLockFree(m) == m = Nil

\* insert, lines 143-152: its i-th store with the locals c
InsertStore_NoLen(st, i, l, c) ==
  CASE i = 1 -> [st EXCEPT !.list[c.node] = l]
    [] i = 2 -> [st EXCEPT !.next[c.at] = c.node]
    [] i = 3 -> [st EXCEPT !.prev[c.node] = c.at]
    [] i = 4 -> [st EXCEPT !.next[c.node] = c.nx]
    [] i = 5 -> [st EXCEPT !.prev[c.nx] = c.node]
    [] OTHER -> st

InsertStore(st, i, l, c) ==
  CASE i = 1 -> [st EXCEPT !.list[c.node] = l]
    [] i = 2 -> [st EXCEPT !.next[c.at] = c.node]
    [] i = 3 -> [st EXCEPT !.prev[c.node] = c.at]
    [] i = 4 -> [st EXCEPT !.next[c.node] = c.nx]
    [] i = 5 -> [st EXCEPT !.prev[c.nx] = c.node]
    [] OTHER -> [st EXCEPT !.len[l] = @ + 1]

\* Remove, lines 200-207: its i-th store
RemoveStore(st, i, l, at) ==
  CASE i = 1 -> [st EXCEPT !.next[st.prev[at]] = st.next[at]]
    [] i = 2 -> [st EXCEPT !.prev[st.next[at]] = st.prev[at]]
    [] i = 3 -> [st EXCEPT !.next[at] = Nil]
    [] i = 4 -> [st EXCEPT !.prev[at] = Nil]
    [] i = 5 -> [st EXCEPT !.list[at] = Nil]
    [] OTHER -> [st EXCEPT !.len[l] = @ - 1]

LastStore == 6

\* the nodes a goroutine can hold a pointer to: those some link leads to
Reachable == {n \in Node : \E m \in AllNodes : next[m] = n \/ prev[m] = n}

\* n is linked into l: owned by it, and its neighbours point back to it
FullyLinked(st, l, n) ==
  /\ st.list[n] = l
  /\ st.next[n] # Nil /\ st.prev[st.next[n]] = n
  /\ st.prev[n] # Nil /\ st.next[st.prev[n]] = n

WalkInstall(st) ==
  /\ next' = st.next /\ prev' = st.prev /\ list' = st.list
  /\ Key' = st.Key /\ Value' = st.Value /\ len' = st.len
  /\ UNCHANGED <<cache, capacity>>

WalkFrame == UNCHANGED <<ret, setval, gone, scen, mu, shadow, mmu, mpc, marg, repo, via, svcVars>>

Seen(t) == IF res[t] = NoCall THEN 0 ELSE res[t].seen

\* a call of t returns value and err
WalkReturn(t, st, value, err) ==
  /\ WalkInstall(st)
  /\ pc' = [pc EXCEPT ![t] = "idle"]
  /\ call' = [call EXCEPT ![t] = NoCall]
  /\ res' = [res EXCEPT ![t] =
               [op |-> call[t].op, err |-> err, value |-> value,
                linked |-> value # Nil /\ FullyLinked(st, CacheList, value),
                seen |-> Seen(t)]]
  /\ hist' = [pushes  |-> hist.pushes
                            + (IF call[t].op \in {"PushFront", "PushBack"} THEN 1 ELSE 0),
              removed |-> hist.removed
                            + (IF call[t].op = "Remove" /\ err = NoErr THEN 1 ELSE 0)]
  /\ WalkFrame

\* PushFront, lines 170-171: the new node, and pushFront's l.root.prev.Load()
MutPushFront(t, key) ==
  /\ pc[t] = "idle" /\ prog[t] <= MaxListCalls
  /\ Cardinality(Unreferenced(LCur)) >= 1
  /\ \E n \in {NewLRUListNode(LCur, key, key)} :
       /\ WalkInstall(n.st)
       /\ call' = [call EXCEPT ![t] = [op |-> "PushFront", node |-> n.node,
                                       at |-> prev[root(CacheList)],
                                       nx |-> Nil, i |-> 1]]
  /\ pc' = [pc EXCEPT ![t] = "lock"]
  /\ prog' = [prog EXCEPT ![t] = @ + 1]
  /\ UNCHANGED <<res, hist, lmu>>
  /\ WalkFrame

\* PushBack, lines 183-184: the new node, and pushBack's &l.root
MutPushBack(t, key) ==
  /\ pc[t] = "idle" /\ prog[t] <= MaxListCalls
  /\ Cardinality(Unreferenced(LCur)) >= 1
  /\ \E n \in {NewLRUListNode(LCur, key, key)} :
       /\ WalkInstall(n.st)
       /\ call' = [call EXCEPT ![t] = [op |-> "PushBack", node |-> n.node,
                                       at |-> root(CacheList),
                                       nx |-> Nil, i |-> 1]]
  /\ pc' = [pc EXCEPT ![t] = "lock"]
  /\ prog' = [prog EXCEPT ![t] = @ + 1]
  /\ UNCHANGED <<res, hist, lmu>>
  /\ WalkFrame

\* Remove(at) with a node of the list
MutRemove(t, at) ==
  /\ pc[t] = "idle" /\ prog[t] <= MaxListCalls
  /\ call' = [call EXCEPT ![t] = [op |-> "Remove", node |-> Nil, at |-> at,
                                  nx |-> Nil, i |-> 1]]
  /\ pc' = [pc EXCEPT ![t] = "lock"]
  /\ prog' = [prog EXCEPT ![t] = @ + 1]
  /\ UNCHANGED <<listVars, cache, capacity, res, hist, lmu>>
  /\ WalkFrame

\* insert, lines 134-142, and Remove, lines 190-198: l.mu.Lock() and the
\* checks of the arguments
MutLock(t) ==
  /\ pc[t] = "lock"
  /\ UNCHANGED prog
  /\ MutexFree(lmu[CacheList])
  /\ IF call[t].op = "Remove"
     THEN IF list[call[t].at] # CacheList
          THEN WalkReturn(t, LCur, Nil, ErrNotInList) /\ lmu' = lmu
          ELSE IF call[t].at = root(CacheList)
          THEN WalkReturn(t, LCur, Nil, ErrRoot) /\ lmu' = lmu
          ELSE /\ pc' = [pc EXCEPT ![t] = "Remove"]
               /\ lmu' = [lmu EXCEPT ![CacheList] = t]
               /\ UNCHANGED <<listVars, cache, capacity, call, res, hist>>
               /\ WalkFrame
     ELSE IF \/ list[call[t].node] # Nil \/ next[call[t].node] # Nil
             \/ prev[call[t].node] # Nil
          THEN WalkReturn(t, LCur, Nil, NoErr) /\ lmu' = lmu
          ELSE IF list[call[t].at] # CacheList
          THEN WalkReturn(t, LCur, Nil, NoErr) /\ lmu' = lmu
          ELSE /\ pc' = [pc EXCEPT ![t] = "insert"]
               /\ lmu' = [lmu EXCEPT ![CacheList] = t]
               /\ UNCHANGED <<listVars, cache, capacity, call, res, hist>>
               /\ WalkFrame

\* insert, lines 143-152, one store at a time; line 144 loads at.next before
\* line 145 overwrites it; the deferred Unlock runs at the return
MutInsertStore(t) ==
  /\ pc[t] = "insert"
  /\ UNCHANGED prog
  /\ lmu[CacheList] = t
  /\ \E c \in {IF call[t].i = 2 THEN [call[t] EXCEPT !.nx = next[call[t].at]]
               ELSE call[t]} :
       \E st \in {InsertStore(LCur, c.i, CacheList, c)} :
         IF c.i = LastStore
         THEN WalkReturn(t, st, c.node, NoErr) /\ lmu' = [lmu EXCEPT ![CacheList] = Nil]
         ELSE /\ WalkInstall(st)
              /\ call' = [call EXCEPT ![t] = [c EXCEPT !.i = @ + 1]]
              /\ UNCHANGED <<pc, res, hist, lmu>>
              /\ WalkFrame

\* Remove, lines 200-207, one store at a time
MutRemoveStore(t) ==
  /\ pc[t] = "Remove"
  /\ UNCHANGED prog
  /\ lmu[CacheList] = t
  /\ \E st \in {RemoveStore(LCur, call[t].i, CacheList, call[t].at)} :
       IF call[t].i = LastStore
       THEN WalkReturn(t, st, call[t].at, NoErr) /\ lmu' = [lmu EXCEPT ![CacheList] = Nil]
       ELSE /\ WalkInstall(st)
            /\ call' = [call EXCEPT ![t].i = @ + 1]
            /\ UNCHANGED <<pc, res, hist, lmu>>
            /\ WalkFrame

\* node.Next() and node.Prev() of a node the goroutine holds
ReadStart(t, op, node) ==
  /\ pc[t] = "idle"
  /\ call' = [call EXCEPT ![t] = [op |-> op, node |-> node, at |-> Nil,
                                  nx |-> Nil, i |-> 1]]
  /\ pc' = [pc EXCEPT ![t] = "load"]
  /\ UNCHANGED <<listVars, cache, capacity, res, hist, lmu, prog>>
  /\ WalkFrame

ReadNext(t, node) == ReadStart(t, "Next", node)
ReadPrev(t, node) == ReadStart(t, "Prev", node)

\* lines 33 and 41: n := node.next.Load(), n := node.prev.Load()
ReadLoad(t) ==
  /\ pc[t] = "load"
  /\ call' = [call EXCEPT ![t].at = IF call[t].op = "Next"
                                    THEN next[call[t].node]
                                    ELSE prev[call[t].node]]
  /\ pc' = [pc EXCEPT ![t] = "owner"]
  /\ UNCHANGED <<listVars, cache, capacity, res, hist, lmu, prog>>
  /\ WalkFrame

\* lines 33 and 41: node.list.Load() != nil, else return nil
ReadOwner(t) ==
  /\ pc[t] = "owner"
  /\ IF list[call[t].node] = Nil
     THEN WalkReturn(t, LCur, Nil, NoErr)
     ELSE /\ pc' = [pc EXCEPT ![t] = "root"]
          /\ UNCHANGED <<listVars, cache, capacity, call, res, hist>>
          /\ WalkFrame
  /\ UNCHANGED <<lmu, prog>>

\* lines 33 and 41: n != &node.list.Load().root with a second load of
\* node.list, whose nil the selector .root dereferences
ReadRoot(t) ==
  /\ pc[t] = "root"
  /\ IF list[call[t].node] = Nil
     THEN WalkReturn(t, LCur, Nil, Panic)
     ELSE IF call[t].at # root(list[call[t].node])
     THEN WalkReturn(t, LCur, call[t].at, NoErr)
     ELSE WalkReturn(t, LCur, Nil, NoErr)
  /\ UNCHANGED <<lmu, prog>>

\* Front(), Back(), Size(), Empty(), lines 76-87 and 117-130, under the read
\* lock
ReadLocked(t, op, value, linked) ==
  /\ pc[t] = "idle"
  /\ RLockFree(lmu[CacheList])
  /\ res' = [res EXCEPT ![t] =
               [op |-> op, err |-> NoErr, value |-> value, linked |-> linked,
                seen |-> IF op = "Size" THEN value ELSE Seen(t)]]
  /\ UNCHANGED <<listVars, cache, capacity, pc, call, hist, lmu, prog>>
  /\ WalkFrame

ReadFront(t) ==
  \E n \in {Front(Cur, CacheList)} :
    ReadLocked(t, "Front", n, n # Nil /\ FullyLinked(Cur, CacheList, n))

ReadBack(t) ==
  \E n \in {Back(Cur, CacheList)} :
    ReadLocked(t, "Back", n, n # Nil /\ FullyLinked(Cur, CacheList, n))

ReadSize(t)  == ReadLocked(t, "Size", ListSize(Cur, CacheList), FALSE)
ReadEmpty(t) == ReadLocked(t, "Empty", ListEmpty(Cur, CacheList), FALSE)

WalkNext ==
  \/ \E k \in ConcKeys : MutPushFront(Mutator, k)
  \/ \E k \in ConcKeys : MutPushBack(Mutator, k)
  \/ \E at \in Attached : MutRemove(Mutator, at)
  \/ MutLock(Mutator)
  \/ MutInsertStore(Mutator)
  \/ MutRemoveStore(Mutator)
  \/ \E t \in Readers :
       \/ \E node \in Reachable : ReadNext(t, node)
       \/ \E node \in Reachable : ReadPrev(t, node)
       \/ ReadLoad(t)
       \/ ReadOwner(t)
       \/ ReadRoot(t)
       \/ ReadFront(t)
       \/ ReadBack(t)
       \/ ReadSize(t)
       \/ ReadEmpty(t)

SpecWalk == ListConcInit /\ [][WalkNext]_vars

\* TestLRUList_Concurrency, lines 236-260: one goroutine makes the PushFront
\* calls (MaxListCalls of them), the others call the accessors
ReadersNext ==
  \/ \E k \in ConcKeys : MutPushFront(Mutator, k)
  \/ MutLock(Mutator)
  \/ MutInsertStore(Mutator)
  \/ \E t \in Readers :
       \/ ReadFront(t)
       \/ ReadBack(t)
       \/ ReadSize(t)
       \/ ReadEmpty(t)

SpecReaders == ListConcInit /\ [][ReadersNext]_vars

\* the pushing goroutine has made all its calls
PushesDone == pc[Mutator] = "idle" /\ prog[Mutator] = MaxListCalls + 1

\* C21: Next() and Prev() of a node, called without the list lock while
\* another goroutine inserts or removes, never fault and never return the
\* sentinel of the list.
C21_LockFreeWalkNeverFaults ==
  \A t \in Readers :
    (res[t] # NoCall /\ res[t].op \in {"Next", "Prev"})
      => res[t].err = NoErr /\ res[t].value \notin Roots

\* C22: one goroutine makes MaxListCalls PushFront calls while the others
\* call Front(), Back(), Size() and Empty(): when the pushes are done Size()
\* is MaxListCalls, no reader gets a Size() below one it got before, and
\* every Front() result is nil or a node fully linked into the list.
C22_PushesSeenByReaders ==
  /\ [](PushesDone => ListSize(Cur, CacheList) = MaxListCalls)
  /\ [](\A t \in Readers :
          (res[t] # NoCall /\ res[t].op = "Front")
            => res[t].value = Nil \/ res[t].linked)
  /\ [][\A t \in Readers :
          (res'[t] # res[t] /\ res'[t].op = "Size")
            => res'[t].value >= Seen(t)]_vars

\* the pushes are done, and a reader that had seen the list with one node
\* got the second node from Front()
C22_Witness ==
  /\ PushesDone
  /\ \E t \in Readers :
       /\ res[t] # NoCall /\ res[t].op = "Front"
       /\ res[t].linked /\ res[t].seen = 1
       /\ len[CacheList] = MaxListCalls

\* C23: when insert or Remove fails with ErrRoot, ErrNotInList or
\* ErrIsListElem inside a public list method, the method reports a failure
\* to its caller: PushFront and PushBack do not return nil for a failed
\* insert as if nothing had gone wrong.
C23_NoErrorSwallowed ==
  \A t \in Threads :
    (res[t] # NoCall /\ res[t].inner \in {ErrRoot, ErrNotInList, ErrIsListElem})
      => res[t].err # NoErr

\* ------------------------------------------------------- the three locks
\* Goroutines call Manager.Set and Manager.Get, the methods of the cache, and
\* PushBack and PopFront of a list of their own (OtherList, of at most
\* MaxOther nodes).  A call is first
\* at its Lock() statement, where it waits until the mutex is free; every
\* list method the cache calls takes the lock of the cache's list for the
\* statement that calls it.  Front(), Back() and Size() take the read lock,
\* modelled as the lock: they wait at least as long.  A method that panics
\* runs its deferred Unlock() calls.
Release_Never(m, t) == m

\* m.Unlock() by the goroutine t
Release(m, t) == IF m = t THEN Nil ELSE m

CacheStmts == {"Set", "Set37", "Set42", "Get", "Delete", "Flush",
               "Contains", "Size", "Capacity", "Empty"}

\* the statement t is at calls a method of the list
NeedsList(t) ==
  CASE pc[t] \in {"Set", "Get", "Delete"} -> MapHas(cache, call[t].key)
    [] pc[t] = "Flush"                    -> DOMAIN cache # {}
    [] pc[t] \in {"Contains", "Capacity"} -> FALSE
    [] OTHER                              -> TRUE

\* the list whose method t is about to call
LockOf(t) == IF pc[t] = "List" THEN OtherList ELSE CacheList

LockFrame == UNCHANGED <<seqVars, shadow, prog, via, svcVars>>

\* the methods of the cache and their arguments; a Set stores the key
LockCalls ==
  {[op |-> o, key |-> k, arg |-> IF o = "Set" THEN k ELSE ZeroValue] :
     o \in {"Set", "Get", "Delete", "Contains"}, k \in ConcKeys}
  \cup {[op |-> o, key |-> Nil, arg |-> ZeroValue] :
     o \in {"Flush", "Size", "Capacity", "Empty"}}

\* a method of the cache returns: the deferred c.mu.Unlock() runs; the
\* Manager keeps the ok of c.cache.Get (line 64) up to line 65
LockReturn(t, ok) ==
  /\ mu' = Release(mu, t)
  /\ pc' = [pc EXCEPT ![t] = "idle"]
  /\ call' = [call EXCEPT ![t] = NoCall]
  /\ res' = [res EXCEPT ![t] = IF mpc[t] = "Get65"
                               THEN [op |-> "Get", got |-> [ok |-> ok]]
                               ELSE NoCall]

\* a method of the cache is called: the caller is at c.mu.Lock()
Enter(t, c) ==
  /\ pc[t] = "idle"
  /\ pc' = [pc EXCEPT ![t] = "Lock"]
  /\ call' = [call EXCEPT ![t] = c]
  /\ res' = [res EXCEPT ![t] = NoCall]
  /\ UNCHANGED <<listVars, cacheVars, mu, lmu>>
  /\ LockFrame

\* Manager.Set(order) and Manager.Get(uid) are called
LockManagerSet(t, uid) ==
  /\ mpc[t] = "idle" /\ pc[t] = "idle"
  /\ mpc' = [mpc EXCEPT ![t] = "Set50"]
  /\ marg' = [marg EXCEPT ![t] = uid]
  /\ UNCHANGED <<listVars, cacheVars, mu, pc, call, res, mmu, lmu, repo>>
  /\ LockFrame

LockManagerGet(t, uid) ==
  /\ mpc[t] = "idle" /\ pc[t] = "idle"
  /\ mpc' = [mpc EXCEPT ![t] = "Get61"]
  /\ marg' = [marg EXCEPT ![t] = uid]
  /\ UNCHANGED <<listVars, cacheVars, mu, pc, call, res, mmu, lmu, repo>>
  /\ LockFrame

\* Manager.Set, line 50, Manager.Get, line 61: c.mu.Lock()
ManagerAcquire(t) ==
  /\ mpc[t] \in {"Set50", "Get61"}
  /\ MutexFree(mmu)
  /\ mmu' = t
  /\ mpc' = [mpc EXCEPT ![t] = IF mpc[t] = "Set50" THEN "Set52" ELSE "Get64"]
  /\ UNCHANGED <<listVars, cacheVars, mu, pc, call, res, marg, lmu, repo>>
  /\ LockFrame

\* Manager.Set, line 56: c.cache.Set(order.OrderUID, order)
ManagerCallSet(t) ==
  /\ mpc[t] = "Set56"
  /\ Enter(t, [op |-> "Set", key |-> marg[t], arg |-> marg[t]])
  /\ mpc' = [mpc EXCEPT ![t] = "Set57"]
  /\ UNCHANGED <<mmu, marg, repo>>

\* Manager.Get, line 64: c.cache.Get(orderUID)
ManagerCallGet(t) ==
  /\ mpc[t] = "Get64"
  /\ Enter(t, [op |-> "Get", key |-> marg[t], arg |-> ZeroValue])
  /\ mpc' = [mpc EXCEPT ![t] = "Get65"]
  /\ UNCHANGED <<mmu, marg, repo>>

\* Manager.Get, line 75: c.cache.Set(orderUID, node)
ManagerCallFill(t) ==
  /\ mpc[t] = "Get75"
  /\ Enter(t, [op |-> "Set", key |-> marg[t], arg |-> marg[t]])
  /\ mpc' = [mpc EXCEPT ![t] = "Get77"]
  /\ UNCHANGED <<mmu, marg, repo>>

\* a method of the cache is called by a goroutine that is not in the Manager
CacheCall(t, c) ==
  /\ mpc[t] = "idle"
  /\ Enter(t, c)
  /\ UNCHANGED <<mmu, mpc, marg, repo>>

\* c.mu.Lock() at the head of every method of the cache
CacheAcquire(t) ==
  /\ pc[t] = "Lock"
  /\ MutexFree(mu)
  /\ mu' = t
  /\ pc' = [pc EXCEPT ![t] = call[t].op]
  /\ UNCHANGED <<listVars, cacheVars, call, res, mmu, mpc, marg, repo, lmu>>
  /\ LockFrame

\* l.mu.Lock() or l.mu.RLock() in the list method the statement calls
ListAcquire(t) ==
  /\ pc[t] \in CacheStmts \cup {"List"}
  /\ NeedsList(t)
  /\ MutexFree(lmu[LockOf(t)])
  /\ lmu' = [lmu EXCEPT ![LockOf(t)] = t]
  /\ UNCHANGED <<listVars, cacheVars, mu, pc, call, res, mmu, mpc, marg, repo>>
  /\ LockFrame

\* a statement of a method of the cache, with the list methods it calls, up
\* to their Unlock(); the last statement returns, which unlocks c.mu
CacheStep(t) ==
  /\ pc[t] \in CacheStmts
  /\ NeedsList(t) => lmu[CacheList] = t
  /\ lmu' = [lmu EXCEPT ![CacheList] = Release(@, t)]
  /\ CASE pc[t] = "Set" ->
            \E r \in {SetLookup(Cur, call[t].key)} :
              /\ Install(r.st)
              /\ IF r.err = Panic THEN LockReturn(t, FALSE)
                 ELSE Goto(t, "Set37")
       [] pc[t] = "Set37" ->
            \E r \in {SetEvict(Cur)} :
              /\ Install(r.st)
              /\ IF r.err = Panic THEN LockReturn(t, FALSE)
                 ELSE Goto(t, "Set42")
       [] pc[t] = "Set42" ->
            \E r \in {SetPush(Cur, call[t].key, call[t].arg)} :
              Install(r.st) /\ LockReturn(t, r.err = NoErr)
       [] pc[t] = "Get" ->
            \E r \in {GetBody(Cur, call[t].key)} :
              Install(r.st) /\ LockReturn(t, r.ok)
       [] pc[t] = "Delete" ->
            \E r \in {DeleteBody(Cur, call[t].key)} :
              Install(r.st) /\ LockReturn(t, r.err = NoErr)
       [] pc[t] = "Flush" ->
            \E r \in {FlushBody(Cur)} :
              Install(r.st) /\ LockReturn(t, r.err = NoErr)
       [] OTHER ->
            \E s \in {Alone(Cur, call[t])} :
              /\ LockReturn(t, s.ok)
              /\ UNCHANGED <<listVars, cacheVars>>
  /\ UNCHANGED <<mmu, mpc, marg, repo>>
  /\ LockFrame

\* l.PushBack(k, v) or l.PopFront() on the goroutine's own list
ListCall(t, op) ==
  /\ mpc[t] = "idle" /\ pc[t] = "idle"
  /\ op = "PushBack" =>
       len[OtherList] + Cardinality({u \in Threads : pc[u] = "List"
                                                      /\ call[u].op = "PushBack"})
         < MaxOther
  /\ pc' = [pc EXCEPT ![t] = "List"]
  /\ call' = [call EXCEPT ![t] = [op |-> op, key |-> OtherList, arg |-> ZeroValue]]
  /\ res' = [res EXCEPT ![t] = NoCall]
  /\ UNCHANGED <<listVars, cacheVars, mu, mmu, mpc, marg, repo, lmu>>
  /\ LockFrame

\* the list method under l.mu, and its return
ListStep(t) ==
  /\ pc[t] = "List"
  /\ lmu[OtherList] = t
  /\ lmu' = [lmu EXCEPT ![OtherList] = Release(@, t)]
  /\ \E r \in {IF call[t].op = "PushBack"
               THEN PushBack(Cur, OtherList, call[t].key, call[t].arg)
               ELSE PopFront(Cur, OtherList)} :
       Install(r.st)
  /\ res' = [res EXCEPT ![t] = NoCall]
  /\ pc' = [pc EXCEPT ![t] = "idle"]
  /\ call' = [call EXCEPT ![t] = NoCall]
  /\ UNCHANGED <<mu, mmu, mpc, marg, repo>>
  /\ LockFrame

LocksInit ==
  /\ \E c \in 0..MaxConcCap : Constructed(c)
  /\ repo = ConcKeys
  /\ prog = [t \in Threads |-> 1]
  /\ via = "locks"
  /\ lmu = [l \in Lists |-> Nil]
  /\ SvcOff

\* the steps of t that wait for a mutex
Acquires(t) == ManagerAcquire(t) \/ CacheAcquire(t) \/ ListAcquire(t)

\* the steps of t in the Manager that wait for nothing
Runs(t) ==
  \/ ManagerSetSave(t) \/ ManagerCallSet(t) \/ ManagerCallGet(t)
  \/ ManagerGetRepo(t) \/ ManagerCallFill(t) \/ ManagerReturn(t)

\* t is at a statement of the cache or of the list that waits for nothing:
\* CacheStep(t) or ListStep(t) can be taken
CanComplete(t) ==
  /\ pc[t] \in CacheStmts \cup {"List"}
  /\ NeedsList(t) => lmu[LockOf(t)] = t

\* t completes that statement: a step of CacheStep(t) or ListStep(t), told
\* by the statement t is at
Completes(t) ==
  /\ CanComplete(t)
  /\ \E label \in (CacheStmts \cup {"idle"}) \ {pc[t]} :
       pc' = [pc EXCEPT ![t] = label]

LocksNext ==
  \E t \in Threads :
    \/ \E uid \in ConcKeys : LockManagerSet(t, uid)
    \/ \E uid \in ConcKeys : LockManagerGet(t, uid)
    \/ \E c \in LockCalls : CacheCall(t, c)
    \/ \E op \in {"PushBack", "PopFront"} : ListCall(t, op)
    \/ ManagerAcquire(t)
    \/ CacheAcquire(t)
    \/ ListAcquire(t)
    \/ ManagerSetSave(t)
    \/ ManagerCallSet(t)
    \/ ManagerCallGet(t)
    \/ ManagerGetRepo(t)
    \/ ManagerCallFill(t)
    \/ ManagerReturn(t)
    \/ CacheStep(t)
    \/ ListStep(t)

SpecLocks == LocksInit /\ [][LocksNext]_vars

\* The Go scheduler runs every goroutine that can run (weak fairness of the
\* steps that wait for nothing), and a goroutine waiting at Lock() for more
\* than a millisecond is handed the mutex at the next Unlock() (sync.Mutex
\* starvation mode): a Lock() that can succeed again and again does succeed
\* (strong fairness).  No goroutine has to make a call.
SpecLocksFair ==
  /\ SpecLocks
  /\ \A t \in Threads :
       WF_vars(Runs(t)) /\ WF_pc(Completes(t)) /\ SF_vars(Acquires(t))

\* Completes(t) is enabled exactly where CacheStep(t) or ListStep(t) is, and
\* the steps of the program that are Completes(t) steps are those steps
CompletesIsTheStep ==
  /\ [](\A t \in Threads : CanComplete(t) <=> ENABLED (CacheStep(t) \/ ListStep(t)))
  /\ [][\A t \in Threads : Completes(t) <=> (CacheStep(t) \/ ListStep(t))]_vars

Busy(t) == pc[t] # "idle" \/ mpc[t] # "idle"

\* t holds a lock of a list
HoldsList(t) == \E l \in Lists : lmu[l] = t

\* C24: a goroutine takes the Manager's lock only while it holds neither the
\* cache's nor a list's lock, and the cache's lock only while it holds no
\* list's lock; a goroutine waiting at a Lock() does not hold that mutex;
\* and, under fair scheduling, every call of a method of the Manager, the
\* cache or the list ends (it returns, or it panics and its deferred
\* Unlock() calls have run).
C24_DeadlockFree ==
  /\ [][\A t \in Threads :
          /\ (mmu' = t /\ mmu # t) => (mu # t /\ ~ HoldsList(t))
          /\ (mu' = t /\ mu # t) => ~ HoldsList(t)]_vars
  /\ [](\A t \in Threads :
          /\ mpc[t] \in {"Set50", "Get61"} => mmu # t
          /\ pc[t] = "Lock" => mu # t
          /\ (pc[t] = "idle" /\ mpc[t] = "idle")
               => (mmu # t /\ mu # t /\ ~ HoldsList(t)))
  /\ \A t \in Threads : Busy(t) ~> ~ Busy(t)

\* a goroutine filling the cache inside Manager.Get holds all three locks
\* while another goroutine waits at the cache's Lock()
C24_Witness ==
  \E t \in Threads :
    /\ mmu = t /\ mu = t /\ lmu[CacheList] = t
    /\ mpc[t] = "Get77" /\ pc[t] = "Set42"
    /\ \E u \in Threads \ {t} : pc[u] = "Lock"

\* ------------------------------------------- the list as a sequence
\* NodesOf(st, l) is the list from Back() to Front().  The claims below are
\* stated on the nodes themselves, for every call a caller can make in
\* every state the list program reaches.
AfterPlace(s, i, x) == SubSeq(s, 1, i) \o <<x>> \o SubSeq(s, i + 1, Len(s))
OtherThan(l) == CHOOSE m \in Lists : m # l
HasRoom == Free # {}

\* l := NewLRUList(); a := l.PushFront(1, 1); b := l.PushFront(2, 2);
\* c := l.PushFront(3, 3); l.PopFront()
PushedABC ==
  LET s0 == NewLRUList(NewLRUCache(0), CacheList)
      a  == PushFront(s0, CacheList, 1, 1)
      b  == PushFront(a.st, CacheList, 2, 2)
      c  == PushFront(b.st, CacheList, 3, 3)
      p  == PopFront(c.st, CacheList)
  IN  [a |-> a.node, b |-> b.node, c |-> c.node, st |-> c.st,
       popped |-> p.node, after |-> p.st]

\* C25: PushFront(k, v) returns a new node holding (k, v) that is then
\* Front(), PushBack(k, v) one that is then Back(); PopFront() of a list
\* that has nodes removes and returns the node that was Front(), PopBack()
\* the node that was Back(); the other nodes keep their order and the other
\* list is untouched.  After PushFront of a, b, c: Back() = a, Front() = c,
\* and after PopFront(): Front() = b and b.Next() = nil.
C25_ListIsDeque ==
  /\ \A l \in Lists :
       LET ns == NodesOf(Cur, l)
           o  == OtherThan(l)
       IN  /\ HasRoom =>
                \A k \in Keys, v \in Values :
                  /\ \E r \in {PushFront(Cur, l, k, v)} :
                       /\ r.err = NoErr /\ r.node \in Free
                       /\ r.st.Key[r.node] = k /\ r.st.Value[r.node] = v
                       /\ Front(r.st, l) = r.node
                       /\ NodesOf(r.st, l) = Append(ns, r.node)
                       /\ ListSize(r.st, l) = Len(ns) + 1
                       /\ NodesOf(r.st, o) = NodesOf(Cur, o)
                  /\ \E r \in {PushBack(Cur, l, k, v)} :
                       /\ r.err = NoErr /\ r.node \in Free
                       /\ r.st.Key[r.node] = k /\ r.st.Value[r.node] = v
                       /\ Back(r.st, l) = r.node
                       /\ NodesOf(r.st, l) = <<r.node>> \o ns
                       /\ ListSize(r.st, l) = Len(ns) + 1
                       /\ NodesOf(r.st, o) = NodesOf(Cur, o)
           /\ ns # <<>> =>
                /\ \E r \in {PopFront(Cur, l)} :
                     /\ r.err = NoErr
                     /\ r.node = Front(Cur, l) /\ r.node = ns[Len(ns)]
                     /\ NodesOf(r.st, l) = SubSeq(ns, 1, Len(ns) - 1)
                     /\ NodesOf(r.st, o) = NodesOf(Cur, o)
                /\ \E r \in {PopBack(Cur, l)} :
                     /\ r.err = NoErr
                     /\ r.node = Back(Cur, l) /\ r.node = ns[1]
                     /\ NodesOf(r.st, l) = Tail(ns)
                     /\ NodesOf(r.st, o) = NodesOf(Cur, o)
  /\ \E e \in {PushedABC} :
       /\ Back(e.st, CacheList) = e.a /\ Front(e.st, CacheList) = e.c
       /\ e.popped = e.c
       /\ Front(e.after, CacheList) = e.b
       /\ NodeNext(e.after, e.b) = Nil
       /\ NodesOf(e.after, CacheList) = <<e.a, e.b>>

\* PopFront returned a node of a list that had two, with a node in the
\* other list
C25_Witness ==
  /\ ret.op = "PopFront" /\ ret.err = NoErr /\ ret.got /\ ret.was = 2
  /\ len[ret.l] = 1 /\ len[OtherThan(ret.l)] >= 1

\* the place of node n in the sequence s of distinct nodes
IndexOf(s, n) == CHOOSE i \in 1..Len(s) : s[i] = n

\* C26: Insert(k, v, at) with at a node of this list returns a new node n
\* holding (k, v), owned by the list and placed immediately after at:
\* at.Next() = n, the node that was at.Next() has Prev() = n, the length
\* grows by one, the other nodes keep their order, the other list is
\* untouched, and n is Front() when at was.
C26_InsertAfter ==
  \A l \in Lists :
    \A at \in {n \in Node : KindOf(Cur, l, n) = "here"} :
      HasRoom =>
        \A k \in Keys, v \in Values :
          \E r \in {Insert(Cur, l, k, v, at)} :
            LET ns  == NodesOf(Cur, l)
                old == NodeNext(Cur, at)
                n   == r.node
                o   == OtherThan(l)
            IN  /\ r.err = NoErr /\ n \in Free
                /\ r.st.Key[n] = k /\ r.st.Value[n] = v
                /\ r.st.list[n] = l
                /\ NodeNext(r.st, at) = n /\ NodePrev(r.st, n) = at
                /\ old # Nil => NodePrev(r.st, old) = n /\ NodeNext(r.st, n) = old
                /\ old = Nil => NodeNext(r.st, n) = Nil
                /\ ListSize(r.st, l) = ListSize(Cur, l) + 1
                /\ NodesOf(r.st, l) = AfterPlace(ns, IndexOf(ns, at), n)
                /\ NodesOf(r.st, o) = NodesOf(Cur, o)
                /\ ListSize(r.st, o) = ListSize(Cur, o)
                /\ Front(Cur, l) = at => Front(r.st, l) = n
                /\ Front(Cur, l) # at => Front(r.st, l) = Front(Cur, l)

\* Insert linked a node between two nodes, and one after the front
C26_Witness ==
  /\ ret.op = "Insert" /\ ret.err = NoErr /\ ret.kind = "here"
  /\ ret.was >= 2 /\ ret.place < ret.was
  /\ len[ret.l] = ret.was + 1

\* C27: Remove(n) of a node of this list returns n with no owner and no
\* links (Next() and Prev() nil), Size() is one less, the nodes that were
\* before and after n are linked to each other, the remaining nodes keep
\* their order, and the other list is untouched.
C27_RemoveDetaches ==
  \A l \in Lists :
    \A at \in {n \in Node : KindOf(Cur, l, n) = "here"} :
      \E r \in {Remove(Holding(Cur, at), l, at)} :
        LET ns == NodesOf(Cur, l)
            p  == Cur.prev[at]
            q  == Cur.next[at]
            o  == OtherThan(l)
        IN  /\ r.err = NoErr /\ r.node = at
            /\ r.st.list[at] = Nil
            /\ r.st.next[at] = Nil /\ r.st.prev[at] = Nil
            /\ NodeNext(r.st, at) = Nil /\ NodePrev(r.st, at) = Nil
            /\ r.st.Key[at] = Cur.Key[at] /\ r.st.Value[at] = Cur.Value[at]
            /\ ListSize(r.st, l) = ListSize(Cur, l) - 1
            /\ r.st.next[p] = q /\ r.st.prev[q] = p
            /\ NodePrev(Cur, at) # Nil =>
                 NodeNext(r.st, NodePrev(Cur, at)) = NodeNext(Cur, at)
            /\ NodeNext(Cur, at) # Nil =>
                 NodePrev(r.st, NodeNext(Cur, at)) = NodePrev(Cur, at)
            /\ NodesOf(r.st, l) = Without(ns, at)
            /\ Len(NodesOf(r.st, l)) = Len(ns) - 1
            /\ NodesOf(r.st, o) = NodesOf(Cur, o)
            /\ ListSize(r.st, o) = ListSize(Cur, o)

\* Remove took a node from between two others
C27_Witness ==
  /\ ret.op = "Remove" /\ ret.err = NoErr /\ ret.got /\ ret.kind = "here"
  /\ ret.was = 3 /\ ret.place = 2 /\ len[ret.l] = 2

\* n, n.Next(), n.Next().Next()... until nil, at most k nodes; and the same
\* with Prev()
RECURSIVE NextWalk(_, _, _)
NextWalk(st, n, k) ==
  IF n = Nil \/ k = 0 THEN <<>>
  ELSE <<n>> \o NextWalk(st, NodeNext(st, n), k - 1)

RECURSIVE PrevWalk(_, _, _)
PrevWalk(st, n, k) ==
  IF n = Nil \/ k = 0 THEN <<>>
  ELSE <<n>> \o PrevWalk(st, NodePrev(st, n), k - 1)

Backwards(s) == [i \in 1..Len(s) |-> s[Len(s) + 1 - i]]
Distinct(s)  == \A i, j \in 1..Len(s) : s[i] = s[j] => i = j

\* C28: Front(), Back(), Next() and Prev() never return a sentinel; Front()
\* and Back() of an empty list are nil; Front().Next() and Back().Prev() are
\* nil; from Back(), Next() visits every node of the list once, Size() nodes
\* in all, the last being Front(), and Prev() from Front() visits them in
\* the reverse order; Next() and Prev() of a detached node are nil.
C28_SentinelHidden ==
  /\ \A n \in AllNodes :
       NodeNext(Cur, n) \notin Roots /\ NodePrev(Cur, n) \notin Roots
  /\ \A l \in Lists :
       \E f \in {Front(Cur, l)}, b \in {Back(Cur, l)} :
         \E w \in {NextWalk(Cur, b, MaxNodes + 1)} :
           /\ f \notin Roots /\ b \notin Roots
           /\ ListSize(Cur, l) = 0 => f = Nil /\ b = Nil
           /\ ListSize(Cur, l) > 0 =>
                /\ f \in Node /\ b \in Node
                /\ NodeNext(Cur, f) = Nil /\ NodePrev(Cur, b) = Nil
                /\ w[Len(w)] = f
           /\ Len(w) = ListSize(Cur, l)
           /\ Distinct(w)
           /\ {w[i] : i \in 1..Len(w)} = {n \in Node : Cur.list[n] = l}
           /\ PrevWalk(Cur, f, MaxNodes + 1) = Backwards(w)
  /\ \A l \in Lists :
       \A at \in {n \in Node : KindOf(Cur, l, n) = "here"} :
         \E r \in {Remove(Holding(Cur, at), l, at)} :
           /\ NodeNext(r.st, at) = Nil /\ NodePrev(r.st, at) = Nil
           /\ \A n \in AllNodes :
                NodeNext(r.st, n) \notin Roots \cup {at}
                  /\ NodePrev(r.st, n) \notin Roots \cup {at}
  /\ HasRoom =>
       \A k \in Keys, v \in Values :
         \E r \in {NewLRUListNode(Cur, k, v)} :
           NodeNext(r.st, r.node) = Nil /\ NodePrev(r.st, r.node) = Nil

\* a list of two nodes next to a list that had its only node removed
C28_Witness ==
  \E l \in Lists :
    /\ len[l] = 2 /\ Len(NextWalk(Cur, Back(Cur, l), MaxNodes + 1)) = 2
    /\ ret.op \in {"Remove", "PopFront", "PopBack"} /\ ret.l = OtherThan(l)
    /\ ret.err = NoErr /\ ret.was = 1 /\ len[ret.l] = 0

\* C29: with one caller, MoveToFront(n) of a node of this list returns no
\* error and moves that node: Front() = n afterwards, Size() is unchanged,
\* n keeps its key, its value and its owner, and the other nodes keep their
\* order (nothing changes when n was Front()); MoveToBack(n) likewise with
\* Back() = n.
C29_MoveKeepsNode ==
  \A l \in Lists :
    \A at \in {n \in Node : KindOf(Cur, l, n) = "here"} :
      \E ns \in {NodesOf(Cur, l)}, o \in {OtherThan(l)} :
        /\ \E r \in {MoveToFront(Holding(Cur, at), l, at)} :
             /\ r.err = NoErr
             /\ Front(r.st, l) = at
             /\ ListSize(r.st, l) = ListSize(Cur, l)
             /\ r.st.Key[at] = Cur.Key[at] /\ r.st.Value[at] = Cur.Value[at]
             /\ r.st.list[at] = l
             /\ NodesOf(r.st, l) = Append(Without(ns, at), at)
             /\ Front(Cur, l) = at => NodesOf(r.st, l) = ns
             /\ NodesOf(r.st, o) = NodesOf(Cur, o)
             /\ ListSize(r.st, o) = ListSize(Cur, o)
        /\ \E r \in {MoveToBack(Holding(Cur, at), l, at)} :
             /\ r.err = NoErr
             /\ Back(r.st, l) = at
             /\ ListSize(r.st, l) = ListSize(Cur, l)
             /\ r.st.Key[at] = Cur.Key[at] /\ r.st.Value[at] = Cur.Value[at]
             /\ r.st.list[at] = l
             /\ NodesOf(r.st, l) = <<at>> \o Without(ns, at)
             /\ Back(Cur, l) = at => NodesOf(r.st, l) = ns
             /\ NodesOf(r.st, o) = NodesOf(Cur, o)
             /\ ListSize(r.st, o) = ListSize(Cur, o)

\* MoveToBack moved the front node of a list of three
C29_Witness ==
  /\ ret.op = "MoveToBack" /\ ret.err = NoErr /\ ret.kind = "here"
  /\ ret.was = 3 /\ ret.place = 3 /\ len[ret.l] = 3
  /\ PlaceOf(Cur, ret.l, Back(Cur, ret.l)) = 1

\* ------------------------------------------- the Manager with one caller
\* main builds the Manager over an LRUCache of the configured capacity,
\* which Config.Validate requires to be positive.  Every action is one
\* complete call of a method of Manager, between c.mu.Lock() and the
\* deferred c.mu.Unlock().  An order is modelled by its contents (a number;
\* Nil is the nil *models.Order), the repository by the orders it holds by
\* UID; a call of the repository may fail.
Orders  == 1..(MaxVal + 1)
ErrRepo == "db error"

\* Repository.GetOrder: the error, the order held, or (nil, nil)
GetOrder(rp, uid, failed) ==
  IF failed THEN [order |-> Nil, err |-> ErrRepo]
  ELSE IF uid \in DOMAIN rp THEN [order |-> rp[uid], err |-> NoErr]
  ELSE [order |-> Nil, err |-> NoErr]

\* Repository.SaveOrder
SaveOrder(rp, uid, order, failed) ==
  IF failed THEN rp ELSE MapPut(rp, uid, order)

\* a Manager.Get that does not store what the repository returned
ManagerGetBody_NoFill(st, rp, uid, failed) ==
  LET g == GetBody(st, uid)
      a == GetOrder(rp, uid, failed)
  IN  IF g.err = Panic
      THEN [st |-> g.st, order |-> Nil, err |-> Panic, asked |-> FALSE]
      ELSE IF g.ok
      THEN [st |-> g.st, order |-> g.value, err |-> NoErr, asked |-> FALSE]
      ELSE [st |-> g.st, order |-> a.order, err |-> a.err, asked |-> TRUE]

\* a Manager.Get that drops the error of the repository
ManagerGetBody_DropsError(st, rp, uid, failed) ==
  LET g == GetBody(st, uid)
      a == GetOrder(rp, uid, failed)
  IN  IF g.err = Panic
      THEN [st |-> g.st, order |-> Nil, err |-> Panic, asked |-> FALSE]
      ELSE IF g.ok
      THEN [st |-> g.st, order |-> g.value, err |-> NoErr, asked |-> FALSE]
      ELSE IF a.order # Nil
      THEN LET s == SetBody(g.st, uid, a.order)
           IN  [st |-> s.st, order |-> a.order, err |-> s.err, asked |-> TRUE]
      ELSE [st |-> g.st, order |-> Nil, err |-> NoErr, asked |-> TRUE]

\* Manager.Get, lines 64-77; asked: repo.GetOrder was called
ManagerGetBody(st, rp, uid, failed) ==
  LET g == GetBody(st, uid)
      a == GetOrder(rp, uid, failed)
  IN  IF g.err = Panic
      THEN [st |-> g.st, order |-> Nil, err |-> Panic, asked |-> FALSE]
      ELSE IF g.ok
      THEN [st |-> g.st, order |-> g.value, err |-> NoErr, asked |-> FALSE]
      ELSE IF a.err # NoErr
      THEN [st |-> g.st, order |-> Nil, err |-> a.err, asked |-> TRUE]
      ELSE IF a.order # Nil
      THEN LET s == SetBody(g.st, uid, a.order)
           IN  IF s.err = Panic
               THEN [st |-> s.st, order |-> Nil, err |-> Panic, asked |-> TRUE]
               ELSE [st |-> s.st, order |-> a.order, err |-> NoErr, asked |-> TRUE]
      ELSE [st |-> g.st, order |-> Nil, err |-> NoErr, asked |-> TRUE]

\* what a Manager method returned, and what it was given: the UID, whether
\* the repository was called and failed, the size the cache had
ManagerRet(op, uid, order, err, asked, failed) ==
  [op |-> op, key |-> uid, order |-> order, err |-> err, asked |-> asked,
   failed |-> failed, was |-> len[CacheList]]

ManagerFrame == UNCHANGED <<histVars, thrVars, mmu, mpc, marg, prog, via, svcVars, lmu>>

\* a Manager.Set that returns when the save failed
ManagerSetBody_StopsOnError(st, rp, uid, order, failed) ==
  IF failed
  THEN [st |-> st, repo |-> rp, err |-> NoErr]
  ELSE LET s == SetBody(st, uid, order)
       IN  [st |-> s.st, repo |-> SaveOrder(rp, uid, order, failed),
            err |-> s.err]

\* Manager.Set, lines 49-57: the error of repo.SaveOrder is logged, then
\* c.cache.Set(order.OrderUID, order) runs
ManagerSetBody(st, rp, uid, order, failed) ==
  LET s == SetBody(st, uid, order)
  IN  [st |-> s.st, repo |-> SaveOrder(rp, uid, order, failed),
       err |-> s.err]

\* m.Set(ctx, &models.Order{OrderUID: uid, ...})
CallManagerSet(uid, order) ==
  \E failed \in BOOLEAN :
    \E r \in {ManagerSetBody(Cur, repo, uid, order, failed)} :
      /\ repo' = r.repo
      /\ Install(r.st)
      /\ ret' = ManagerRet("Manager.Set", uid, order, r.err, TRUE, failed)
      /\ ManagerFrame

\* m.Get(ctx, uid)
CallManagerGet(uid) ==
  \E failed \in BOOLEAN :
    \E r \in {ManagerGetBody(Cur, repo, uid, failed)} :
      /\ Install(r.st)
      /\ ret' = ManagerRet("Manager.Get", uid, r.order, r.err, r.asked,
                           r.asked /\ failed)
      /\ UNCHANGED repo
      /\ ManagerFrame

\* m.DeleteCache(uid): the error of cache.Delete is logged
CallDeleteCache(uid) ==
  \E r \in {DeleteBody(Cur, uid)} :
    /\ Install(r.st)
    /\ ret' = ManagerRet("Manager.DeleteCache", uid, Nil, NoErr, FALSE, FALSE)
    /\ UNCHANGED repo
    /\ ManagerFrame

\* m.FlushCache()
CallFlushCache ==
  \E r \in {FlushBody(Cur)} :
    /\ Install(r.st)
    /\ ret' = ManagerRet("Manager.FlushCache", Nil, Nil, NoErr, FALSE, FALSE)
    /\ UNCHANGED repo
    /\ ManagerFrame

ManagerInit ==
  /\ \E c \in 1..MaxCap : Constructed(c)
  /\ \E held \in SUBSET ConcKeys : repo \in [held -> Orders]
  /\ prog = [t \in Threads |-> 1]
  /\ via = "manager"
  /\ lmu = [l \in Lists |-> Nil]
  /\ SvcOff

\* Repository.GetNOrders(n): on an error no rows; else n of the orders held
\* (all of them when fewer are held), in any sequence.  A row is told by its
\* UID.
GetNOrders(rp, n, failed) ==
  IF failed THEN {<<>>}
  ELSE LET m == Cardinality(DOMAIN rp)
           k == IF m < n THEN m ELSE n
       IN  {rows \in [1..k -> DOMAIN rp] :
              \A i, j \in 1..k : rows[i] = rows[j] => i = j}

\* a loop whose iterations share one variable order
LoopVar_Shared(i) == 1

\* for _, order := range orders: the variable order of iteration i.  The
\* module ranges over integers and iterators (producer/main.go 103,
\* part_001 61), so it is built for Go 1.22 or later, where every iteration
\* has a variable of its own.
LoopVar(i) == i

\* the row the variable v holds when the loop has ended
Pointee(rows, v) ==
  rows[CHOOSE i \in 1..Len(rows) :
         /\ LoopVar(i) = v
         /\ \A j \in 1..Len(rows) : LoopVar(j) = v => j <= i]

\* Manager.WarmCache, lines 41-43: c.cache.Set(order.OrderUID, &order); the
\* cache is given the pointer, whose order is the one its variable holds at
\* the end
RECURSIVE WarmLoop(_, _, _, _)
WarmLoop(st, rp, rows, i) ==
  IF i > Len(rows) THEN Result(st, Nil, NoErr)
  ELSE LET s == SetBody(st, rows[i], rp[Pointee(rows, LoopVar(i))])
       IN  IF s.err = Panic THEN s ELSE WarmLoop(s.st, rp, rows, i + 1)

\* m.WarmCache(ctx); loaded: per UID set, the variable whose address the
\* cache got and the UID of the order in it
CallWarmCache ==
  \E failed \in BOOLEAN :
    \E rows \in GetNOrders(repo, CapacityBody(Cur), failed) :
      \E r \in {WarmLoop(Cur, repo, rows, 1)} :
        /\ Install(r.st)
        /\ ret' = [op |-> "Manager.WarmCache", key |-> Nil, order |-> Nil,
                   err |-> r.err, asked |-> TRUE, failed |-> failed,
                   was |-> len[CacheList],
                   loaded |-> [i \in 1..Len(rows) |->
                                 [uid |-> rows[i], ref |-> LoopVar(i),
                                  holds |-> Pointee(rows, LoopVar(i))]]]
        /\ UNCHANGED repo
        /\ ManagerFrame

ManagerNext ==
  \/ \E uid \in ConcKeys, order \in Orders : CallManagerSet(uid, order)
  \/ \E uid \in ConcKeys : CallManagerGet(uid)
  \/ \E uid \in ConcKeys : CallDeleteCache(uid)
  \/ CallFlushCache
  \/ CallWarmCache

SpecManager == ManagerInit /\ [][ManagerNext]_vars

\* the orders in the cache by UID
Cached == [k \in DOMAIN cache |-> Value[cache[k]]]

\* C30: Manager.Get is read-through.  When the cache holds the UID, Get
\* returns the cached order and nil and does not call the repository.  When
\* it does not and the repository returns the order, Get returns that order
\* and nil, and the cache then holds it under the UID (a cache Get hits with
\* it).  When the repository returns (nil, nil), Get returns (nil, nil) and
\* the cache is as before.
C30_ReadThrough ==
  [][\A uid \in ConcKeys :
       (ret'.op = "Manager.Get" /\ ret'.key = uid /\ ~ ret'.failed) =>
         /\ uid \in DOMAIN cache =>
              /\ ret'.order = Cached[uid] /\ ret'.err = NoErr
              /\ ~ ret'.asked
              /\ Cached' = Cached
         /\ (uid \notin DOMAIN cache /\ uid \in DOMAIN repo) =>
              /\ ret'.order = repo[uid] /\ ret'.err = NoErr
              /\ ret'.asked
              /\ uid \in DOMAIN cache' /\ Cached'[uid] = repo[uid]
              /\ (GetBody(Cur, uid).ok)'
              /\ (GetBody(Cur, uid).value)' = repo[uid]
         /\ (uid \notin DOMAIN cache /\ uid \notin DOMAIN repo) =>
              /\ ret'.order = Nil /\ ret'.err = NoErr
              /\ ret'.asked
              /\ Cached' = Cached /\ Recency' = Recency
              /\ len' = len]_vars

\* Get missed a full cache, the repository returned the order, and the
\* cache now holds it in place of another
C30_Witness ==
  /\ ret.op = "Manager.Get" /\ ret.asked /\ ~ ret.failed
  /\ ret.order \in Orders /\ ret.err = NoErr
  /\ ret.was = capacity /\ len[CacheList] = capacity
  /\ ret.key \in DOMAIN cache /\ Cached[ret.key] = ret.order

\* C31: when the repository fails, Manager.Get of a UID the cache does not
\* hold returns a nil order with the repository's error, and the cache has
\* the same UIDs, orders, recency and size as before the call.
C31_RepoErrorReturned ==
  [][\A uid \in ConcKeys :
       (ret'.op = "Manager.Get" /\ ret'.key = uid /\ ret'.failed) =>
         /\ uid \notin DOMAIN cache
         /\ ret'.order = Nil /\ ret'.err = ErrRepo
         /\ Cached' = Cached /\ Recency' = Recency
         /\ len' = len /\ repo' = repo]_vars

\* Get failed for an order the repository holds, on a cache that is not
\* empty
C31_Witness ==
  /\ ret.op = "Manager.Get" /\ ret.failed /\ ret.err = ErrRepo
  /\ ret.key \in DOMAIN repo /\ len[CacheList] >= 1

\* C32: Manager.WarmCache run on an empty cache over a repository that
\* holds m orders leaves min(m, capacity) orders in the cache; and in every
\* run each UID it set is in the cache with the repository's order of that
\* UID, through a pointer to a record that carries that UID and that no
\* other UID set shares.
C32_WarmCacheLoads ==
  [][(ret'.op = "Manager.WarmCache" /\ ~ ret'.failed) =>
       \E m \in {Cardinality(DOMAIN repo)}, ld \in {ret'.loaded} :
         /\ ret'.err = NoErr
         /\ Len(ld) = IF m < capacity THEN m ELSE capacity
         /\ len[CacheList] = 0 =>
              /\ len'[CacheList] = IF m < capacity THEN m ELSE capacity
              /\ Cardinality(DOMAIN cache') = len'[CacheList]
         /\ len'[CacheList] <= capacity
         /\ \A i \in 1..Len(ld) :
              /\ ld[i].holds = ld[i].uid
              /\ ld[i].uid \in DOMAIN cache'
              /\ Cached'[ld[i].uid] = repo[ld[i].uid]
              /\ \A j \in 1..Len(ld) : ld[i].ref = ld[j].ref => i = j]_vars

\* WarmCache loaded two orders with different contents into an empty cache
C32_Witness ==
  /\ ret.op = "Manager.WarmCache" /\ ~ ret.failed /\ ret.was = 0
  /\ Len(ret.loaded) = 2 /\ len[CacheList] = 2
  /\ \E a, b \in DOMAIN cache : Cached[a] # Cached[b]

\* the goroutine is between the Remove and the insert of a MoveToFront or
\* MoveToBack
Moving(t) ==
  /\ call[t] # NoCall /\ call[t].op \in {"MoveToFront", "MoveToBack"}
  /\ pc[t] \in {"pushFront", "insert"}

\* C33: MoveToFront(n) and MoveToBack(n) are one serialized change.  In no
\* state that other goroutines can act in is the node of a running move
\* detached or the length short of it; and a move that has removed its node
\* (the node was attached, and no other goroutine can remove it then)
\* returns no error with the node attached to the list.
C33_MoveIsOneChange ==
  /\ [](\A t \in Threads :
          Moving(t) => list[call[t].node] = CacheList)
  /\ [][\A t \in Threads :
          (Moving(t) /\ pc'[t] = "idle") =>
             res'[t].err = NoErr /\ res'[t].linked]_vars

\* ------------------------------------------------- goroutines that pop
\* The list holds PopNodes nodes or more, with the keys 1, 2, ... from the
\* back, and the goroutines call nothing but PopFront and PopBack
\* (GoPopFront, GoPopBack, StepFront, StepBack and StepRemove above).
\* ret.size is the number of nodes the list had at the start.
RECURSIVE PushedUpTo(_, _)
PushedUpTo(st, k) ==
  IF k = 0 THEN st
  ELSE PushFront(PushedUpTo(st, k - 1), CacheList, k, k).st

PopsInit ==
  /\ \E n \in NumThreads..MaxNodes :
       \E st \in {Canon(PushedUpTo(NewLRUList(NewLRUList(NewLRUCache(0), CacheList),
                                              OtherList), n))} :
          /\ next = st.next /\ prev = st.prev /\ list = st.list
          /\ Key = st.Key /\ Value = st.Value /\ len = st.len
          /\ cache = MapClear /\ capacity = 0
          /\ ret = [op |-> "NewLRUList", size |-> n]
  /\ hist = [pushes |-> 0, removed |-> 0]
  /\ setval = MapClear /\ gone = {} /\ scen = 0 - 1
  /\ mu = Nil
  /\ pc = [t \in Threads |-> "idle"]
  /\ call = [t \in Threads |-> NoCall]
  /\ res = [t \in Threads |-> NoCall]
  /\ shadow = Nil
  /\ mmu = Nil
  /\ mpc = [t \in Threads |-> "idle"]
  /\ marg = [t \in Threads |-> Nil]
  /\ repo = {}
  /\ prog = [t \in Threads |-> 1]
  /\ via = "list"
  /\ lmu = [l \in Lists |-> Nil]
  /\ SvcOff

PopsNext ==
  \E t \in Threads :
    \/ GoPopFront(t)
    \/ GoPopBack(t)
    \/ StepFront(t)
    \/ StepBack(t)
    \/ StepRemove(t)

SpecPops == PopsInit /\ [][PopsNext]_vars

\* the pop calls made so far
PopsCalled ==
  Cardinality({p \in Threads \X (1..MaxListCalls) : p[2] < prog[p[1]]})

\* C34: when goroutines call PopFront and PopBack concurrently on a list
\* that holds at least as many nodes as calls are made, and nothing else is
\* called, every call returns a node and no error, and once the calls have
\* returned the list is shorter by their number, with as many different
\* nodes gone.
C34_ConcurrentPopsSucceed ==
  PopsCalled <= ret.size =>
    /\ \A t \in Threads :
         res[t] # NoCall => res[t].err = NoErr /\ res[t].got
    /\ ListQuiet =>
         /\ ListSize(Cur, CacheList) = ret.size - PopsCalled
         /\ Cardinality({Key[n] : n \in {m \in Node : list[m] = CacheList}})
              = ret.size - PopsCalled

\* C35: Manager.Set(order) stores the order in the cache under its UID also
\* when repo.SaveOrder fails: right after a Set whose save failed, the cache
\* holds the order under the UID (ContainsCache is true) and Manager.Get of
\* the UID returns that order and nil without calling the repository, while
\* the repository is as it was before the Set.
C35_SetCachesDespiteError ==
  /\ [](ret.op = "Manager.Set" =>
          /\ ret.err = NoErr
          /\ ContainsBody(Cur, ret.key)
          /\ Cached[ret.key] = ret.order
          /\ \A failed \in BOOLEAN :
               \E g \in {ManagerGetBody(Cur, repo, ret.key, failed)} :
                 g.order = ret.order /\ g.err = NoErr /\ ~ g.asked)
  /\ [][(ret'.op = "Manager.Set" /\ ret'.failed) => repo' = repo]_vars

\* a Set whose save failed left in the cache an order the repository does
\* not hold
C35_Witness ==
  /\ ret.op = "Manager.Set" /\ ret.failed /\ ret.err = NoErr
  /\ ret.key \notin DOMAIN repo
  /\ ret.key \in DOMAIN cache /\ Cached[ret.key] = ret.order

\* ------------------------------------------------------ the Kafka consumer
\* internal/kafka: a Consumer, the consume goroutines its Start calls spawn,
\* and its InMemoryDeadLetterQueue.  Start and Stop hold c.mu from the first
\* statement to the return, and a consume loop reads c.running and c.reader
\* under c.mu.RLock(), so each of the three is one step.  A kafka.Reader is
\* the number of the Start that created it; the readers of the consumer
\* group share the position in the topic (cursor).  The ID of a dead letter
\* is "dlq_<unix time>_<idCounter>"; as idCounter grows with every Send, two
\* IDs are equal exactly when their counters are, and the counter is the key.
MaxStarts == 2
MaxMsgs   == 2

\* message.Value: an order, an order that Validate() rejects, bytes that
\* json.Unmarshal rejects
Payloads == {"order", "invalid order", "not json"}

ErrRunning   == "consumer is already running"
ErrClose     == "failed to close Kafka reader"
ErrUnmarshal == "failed to unmarshal order JSON"
ErrValidate  == "order validation failed"
ErrProcess   == "failed to process order"

\* the state the cache and its callers are left in: this program calls none
CoreOff ==
  /\ next = NewLRUCache(1).next /\ prev = NewLRUCache(1).prev
  /\ list = NewLRUCache(1).list /\ Key = NewLRUCache(1).Key
  /\ Value = NewLRUCache(1).Value /\ len = NewLRUCache(1).len
  /\ cache = NewLRUCache(1).cache /\ capacity = NewLRUCache(1).capacity
  /\ setval = MapClear /\ gone = {} /\ scen = 0 /\ mu = Nil
  /\ pc = [t \in Threads |-> "idle"] /\ call = [t \in Threads |-> NoCall]
  /\ res = [t \in Threads |-> NoCall] /\ shadow = NewLRUCache(1)
  /\ mmu = Nil /\ mpc = [t \in Threads |-> "idle"]
  /\ marg = [t \in Threads |-> Nil] /\ repo = {}
  /\ prog = [t \in Threads |-> 1] /\ via = "service"
  /\ lmu = [l \in Lists |-> Nil]

coreVars == <<listVars, cacheVars, setval, gone, scen, thrVars, mmu, mpc,
              marg, repo, prog, via, lmu>>
mainVars == <<gpc, errChan, server, database, notified, signalled, proc,
              stopErrors>>

\* the process runs (or the consumer is used without a main)
Alive == proc \in {"none", "running"}

\* InMemoryDeadLetterQueue.Send, lines 28-70, on q = [messages, idCounter]
Send(q, offset, reason) ==
  [messages  |-> MapPut(q.messages, q.idCounter + 1,
                        [offset |-> offset, reason |-> reason]),
   idCounter |-> q.idCounter + 1]

\* InMemoryDeadLetterQueue.GetMessageCount
GetMessageCount == Cardinality(DOMAIN messages)

\* processMessage, lines 390-457: json.Unmarshal, validateOrder,
\* processor.ProcessOrder (fails: the processor returned an error)
processMessage(q, offset, value, fails) ==
  IF value = "not json"
  THEN [q |-> Send(q, offset, "json_unmarshal_error"), err |-> ErrUnmarshal]
  ELSE IF value = "invalid order"
  THEN [q |-> Send(q, offset, "validation_error"), err |-> ErrValidate]
  ELSE IF fails
  THEN [q |-> q, err |-> ErrProcess]
  ELSE [q |-> q, err |-> NoErr]

\* a loop that commits the messages it processed without an error only
Handled_FailedUncommitted(gid, err) ==
  IF gid /\ err = NoErr THEN "commit" ELSE "top"

\* consume, line 367: the statement after the handling of a message
Handled(gid, err) ==
  IF gid THEN "commit" ELSE "top"

\* a consume goroutine before its first statement
NewLoop ==
  [pc |-> "top", reader |-> Nil, offset |-> 0, value |-> "order",
   err |-> NoErr, tries |-> 0, sent |-> FALSE, commits |-> 0]

\* Start, lines 224-266
StartBody ==
  IF running
  THEN /\ ret' = [op |-> "Start", err |-> ErrRunning]
       /\ UNCHANGED <<running, reader, loops>>
  ELSE /\ reader' = Len(loops) + 1
       /\ running' = TRUE
       /\ loops' = Append(loops, NewLoop)
       /\ ret' = [op |-> "Start", err |-> NoErr]

\* Stop, lines 268-287; reader.Close() closes the reader and may return an
\* error
StopBody ==
  IF ~ running
  THEN /\ ret' = [op |-> "Stop", err |-> NoErr]
       /\ UNCHANGED <<running, reader, closed>>
  ELSE /\ running' = FALSE
       /\ IF reader = Nil
          THEN /\ ret' = [op |-> "Stop", err |-> NoErr]
               /\ UNCHANGED <<reader, closed>>
          ELSE /\ closed' = closed \cup {reader}
               /\ \E closeErr \in BOOLEAN :
                    IF closeErr
                    THEN ret' = [op |-> "Stop", err |-> ErrClose]
                         /\ reader' = reader
                    ELSE ret' = [op |-> "Stop", err |-> NoErr]
                         /\ reader' = Nil

ConsumerFrame == UNCHANGED <<coreVars, groupID, mainVars>>

\* c.Start(ctx)
ConsumerStart ==
  /\ Alive
  /\ running \/ Len(loops) < MaxStarts
  /\ StartBody
  /\ UNCHANGED <<hist, closed, messages, idCounter, cursor, ctx>>
  /\ ConsumerFrame

\* c.Stop(ctx)
ConsumerStop ==
  /\ Alive
  /\ StopBody
  /\ UNCHANGED <<hist, loops, messages, idCounter, cursor, ctx>>
  /\ ConsumerFrame

\* the caller of Start cancels the context it gave
CancelCtx ==
  /\ Alive
  /\ ctx = "live"
  /\ ctx' = "cancelled"
  /\ UNCHANGED <<ret, hist, running, reader, closed, loops, messages,
                 idCounter, cursor>>
  /\ ConsumerFrame

LoopFrame ==
  UNCHANGED <<ret, running, reader, closed, ctx>> /\ ConsumerFrame

\* consume, lines 291-298: the loop reads c.running and c.reader
LoopTop(g) ==
  /\ Alive
  /\ loops[g].pc = "top"
  /\ loops' = [loops EXCEPT ![g] =
                 IF ~ running \/ reader = Nil
                 THEN [@ EXCEPT !.pc = "done"]
                 ELSE [@ EXCEPT !.pc = "fetch", !.reader = reader]]
  /\ UNCHANGED <<hist, messages, idCounter, cursor>>
  /\ LoopFrame

\* consume, lines 300-338: reader.FetchMessage through the circuit breaker.
\* It returns the next message of an open reader, or an error (the breaker
\* is open, the 30 seconds passed, the reader was closed, ctx was
\* cancelled); after an error the loop ends if ctx is done, and goes on
\* otherwise (the function retry.Do is given returns nil)
LoopFetch(g) ==
  /\ Alive
  /\ loops[g].pc = "fetch"
  /\ \/ /\ loops[g].reader \notin closed /\ ctx = "live" /\ cursor < MaxMsgs
        /\ cursor' = cursor + 1
        /\ \E value \in Payloads :
             loops' = [loops EXCEPT ![g] =
                         [pc |-> "process", reader |-> @.reader,
                          offset |-> cursor + 1, value |-> value,
                          err |-> NoErr, tries |-> 0, sent |-> FALSE,
                          commits |-> 0]]
     \/ /\ loops' = [loops EXCEPT ![g].pc =
                       IF ctx = "cancelled" THEN "done" ELSE "top"]
        /\ UNCHANGED cursor
  /\ UNCHANGED <<hist, messages, idCounter>>
  /\ LoopFrame

\* consume, line 339: processErr := c.processMessage(ctx, message)
LoopProcess(g) ==
  /\ Alive
  /\ loops[g].pc = "process"
  /\ \E fails \in BOOLEAN :
       \E r \in {processMessage([messages |-> messages, idCounter |-> idCounter],
                                loops[g].offset, loops[g].value, fails)} :
         /\ messages' = r.q.messages
         /\ idCounter' = r.q.idCounter
         /\ loops' = [loops EXCEPT ![g] =
                        [@ EXCEPT !.err = r.err, !.tries = @ + 1,
                                  !.pc = IF r.err # NoErr THEN "send"
                                         ELSE Handled(groupID, r.err)]]
         /\ hist' = IF r.err # NoErr
                    THEN [hist EXCEPT !.failed = @ + 1]
                    ELSE [hist EXCEPT !.succeeded = @ + 1]
  /\ UNCHANGED cursor
  /\ LoopFrame

\* consume, lines 340-365: the message whose processing failed is sent to
\* the dead letter queue
LoopSend(g) ==
  /\ Alive
  /\ loops[g].pc = "send"
  /\ \E q \in {Send([messages |-> messages, idCounter |-> idCounter],
                    loops[g].offset, "processing_error")} :
       messages' = q.messages /\ idCounter' = q.idCounter
  /\ loops' = [loops EXCEPT ![g] =
                 [@ EXCEPT !.sent = TRUE,
                           !.pc = Handled(groupID, loops[g].err)]]
  /\ UNCHANGED <<hist, cursor>>
  /\ LoopFrame

\* consume, lines 367-386: reader.CommitMessages under retry.Do; its error
\* is logged
LoopCommit(g) ==
  /\ Alive
  /\ loops[g].pc = "commit"
  /\ loops' = [loops EXCEPT ![g] = [@ EXCEPT !.commits = @ + 1, !.pc = "top"]]
  /\ UNCHANGED <<hist, messages, idCounter, cursor>>
  /\ LoopFrame

\* NewConsumer, with a GroupID that is blank or not
ConsumerInit ==
  /\ CoreOff
  /\ ret = [op |-> "NewConsumer", err |-> NoErr]
  /\ hist = [failed |-> 0, succeeded |-> 0]
  /\ running = FALSE /\ reader = Nil /\ closed = {} /\ loops = <<>>
  /\ messages = <<>> /\ idCounter = 0 /\ cursor = 0
  /\ groupID \in BOOLEAN
  /\ ctx = "live"
  /\ gpc = <<>> /\ errChan = <<>> /\ server = "new" /\ database = "open"
  /\ notified = FALSE /\ signalled = FALSE /\ proc = "none"
  /\ stopErrors = 0

ConsumerNext ==
  \/ ConsumerStart
  \/ ConsumerStop
  \/ CancelCtx
  \/ \E g \in DOMAIN loops : LoopTop(g)
  \/ \E g \in DOMAIN loops : LoopFetch(g)
  \/ \E g \in DOMAIN loops : LoopProcess(g)
  \/ \E g \in DOMAIN loops : LoopSend(g)
  \/ \E g \in DOMAIN loops : LoopCommit(g)

SpecConsumer == ConsumerInit /\ [][ConsumerNext]_vars

\* C36: every fetched message whose processing failed (json.Unmarshal,
\* validation or the processor) leaves exactly one entry in the dead letter
\* queue and a message processed without error leaves none: when no loop is
\* between processMessage and the Send of consume, GetMessageCount() is the
\* number of the messages whose processing failed.
C36_OneEntryPerFailure ==
  (\A g \in DOMAIN loops : loops[g].pc # "send") =>
     GetMessageCount = hist.failed

\* C37: at most one consume loop works at a time, for every sequence of
\* Start and Stop: no two loops are in an iteration on a reader that is
\* open, a loop fetches from the reader of the Start that spawned it only,
\* Start on a running consumer returns an error and spawns nothing, Stop on
\* a stopped consumer returns nil and changes nothing.
C37_OneConsumeLoop ==
  /\ [](/\ Cardinality({g \in DOMAIN loops :
                          /\ loops[g].pc \in {"fetch", "process", "send", "commit"}
                          /\ loops[g].reader \notin closed}) <= 1
        /\ \A g \in DOMAIN loops :
             loops[g].pc = "fetch" => loops[g].reader = g)
  /\ [][/\ (ret' # ret /\ ret'.op = "Start" /\ running) =>
             ret'.err = ErrRunning /\ UNCHANGED <<running, reader, closed, loops>>
        /\ (ret' # ret /\ ret'.op = "Stop" /\ ~ running) =>
             ret'.err = NoErr /\ UNCHANGED <<running, reader, closed, loops>>]_vars

\* C38: with a GroupID that is not blank a loop handles a message in the
\* order fetch, processMessage, Send if that failed, commit: processMessage
\* is called once for a message; the commit is attempted after it and after
\* the Send, whether processMessage failed or not; the loop goes back to
\* its top after the commit attempt and fetches a message only when the one
\* it had was committed.
C38_FetchProcessCommit ==
  /\ [](\A g \in DOMAIN loops : loops[g].tries <= 1 /\ loops[g].commits <= 1)
  /\ [][\A g \in DOMAIN loops :
          groupID =>
            LET a == loops[g]
                b == loops'[g]
            IN  /\ (a.pc = "process" /\ b.pc # "process") =>
                      /\ a.tries = 0 /\ b.tries = 1
                      /\ b.pc = IF b.err = NoErr THEN "commit" ELSE "send"
                /\ (a.pc = "send" /\ b.pc # "send") =>
                      b.sent /\ b.err # NoErr /\ b.pc = "commit"
                /\ (a.pc # "commit" /\ b.pc = "commit") =>
                      /\ a.pc \in {"process", "send"}
                      /\ b.tries = 1 /\ b.commits = 0
                      /\ b.err # NoErr => b.sent
                /\ (a.pc = "commit" /\ b.pc # "commit") =>
                      b.commits = 1 /\ b.pc = "top" /\ b.offset = a.offset
                /\ (a.pc # "process" /\ b.pc = "process") =>
                      /\ a.pc = "fetch"
                      /\ a.offset # 0 => a.commits = 1
                      /\ b.offset > a.offset]_vars

\* a loop of a consumer with a GroupID had a message whose processing
\* failed, sent it to the dead letter queue, attempted the commit and has
\* fetched the next message
C38_Witness ==
  /\ groupID /\ Len(loops) = 1 /\ hist.failed = 1 /\ hist.succeeded = 0
  /\ loops[1].pc = "process" /\ loops[1].offset = 2 /\ loops[1].tries = 0
  /\ \E id \in DOMAIN messages : messages[id].reason = "processing_error"

\* ------------------------------------------------ main of the order service
\* cmd/order_service/main.go from line 72: the configuration is loaded, the
\* database, the cache, the service, the HTTP server and the consumer are
\* built.  The goroutines are main, the two that main starts (lines 76, 84),
\* the one it starts for the shutdown (line 102) and the two of that one
\* (lines 111, 121); the consume goroutines are those of the consumer above.
\* logger.Fatal() ends the process with os.Exit(1).  Until signal.Notify is
\* called a SIGINT or SIGTERM has its default disposition: the Go runtime
\* ends the process.
Goroutines == {"main", "http", "kafka", "shutdown", "stopKafka", "stopHTTP"}

ErrHTTP == "failed to start HTTP server"

\* the goroutine g is at statement at and goes to statement to
At(g, at) == gpc[g] = at
GoTo(g, to) == gpc' = [gpc EXCEPT ![g] = to]

\* main, lines 72-142
MainStep ==
  CASE At("main", "go http") ->              \* lines 75-81
         /\ gpc' = [gpc EXCEPT !["main"] = "go kafka", !["http"] = "Start"]
         /\ UNCHANGED <<errChan, notified, proc, ctx>>
    [] At("main", "go kafka") ->             \* lines 83-90
         /\ gpc' = [gpc EXCEPT !["main"] = "Sleep", !["kafka"] = "Start"]
         /\ UNCHANGED <<errChan, notified, proc, ctx>>
    [] At("main", "Sleep") ->                \* line 92
         /\ GoTo("main", "select")
         /\ UNCHANGED <<errChan, notified, proc, ctx>>
    [] At("main", "select") ->               \* lines 94-97: the one case
         /\ errChan # <<>>                   \* receives, then logger.Fatal
         /\ errChan' = Tail(errChan)
         /\ proc' = "exit 1"
         /\ UNCHANGED <<gpc, notified, ctx>>
    [] At("main", "Notify") ->               \* lines 99-100
         /\ notified' = TRUE
         /\ GoTo("main", "go shutdown")
         /\ UNCHANGED <<errChan, proc, ctx>>
    [] At("main", "go shutdown") ->          \* line 102
         /\ gpc' = [gpc EXCEPT !["main"] = "Done", !["shutdown"] = "go stops"]
         /\ UNCHANGED <<errChan, notified, proc, ctx>>
    [] At("main", "Done") ->                 \* line 141, and the return
         /\ ctx = "cancelled"
         /\ proc' = "exit 0"
         /\ GoTo("main", "returned")
         /\ UNCHANGED <<errChan, notified, ctx>>
    [] OTHER -> FALSE

\* the goroutine of line 76: httpServer.Start() is ListenAndServe, which
\* fails at once or serves until Shutdown; Start returns nil after Shutdown
HTTPStep ==
  CASE At("http", "Start") ->
         \E fails \in BOOLEAN :
           IF fails
           THEN /\ errChan' = Append(errChan, ErrHTTP)
                /\ GoTo("http", "done")
                /\ UNCHANGED server
           ELSE /\ server' = "listening"
                /\ GoTo("http", "serving")
                /\ UNCHANGED errChan
    [] At("http", "serving") ->
         /\ server = "shutdown"
         /\ GoTo("http", "done")
         /\ UNCHANGED <<errChan, server>>
    [] OTHER -> FALSE

\* the goroutine of line 84: kafkaConsumer.Start(ctx)
KafkaStep ==
  /\ At("kafka", "Start")
  /\ StartBody
  /\ errChan' = IF ret'.err # NoErr THEN Append(errChan, ret'.err) ELSE errChan
  /\ GoTo("kafka", "done")

\* the goroutine of line 102: it starts the two that stop the components,
\* waits for them, closes the database and cancels ctx
ShutdownStep ==
  CASE At("shutdown", "go stops") ->         \* lines 103-128
         /\ gpc' = [gpc EXCEPT !["shutdown"] = "Wait", !["stopKafka"] = "Stop",
                               !["stopHTTP"] = "Stop"]
         /\ UNCHANGED <<database, ctx>>
    [] At("shutdown", "Wait") ->             \* lines 130-132
         /\ At("stopKafka", "done") /\ At("stopHTTP", "done")
         /\ database' = "closed"
         /\ GoTo("shutdown", "cancel")
         /\ UNCHANGED ctx
    [] At("shutdown", "cancel") ->           \* lines 134-138
         /\ ctx' = "cancelled"
         /\ GoTo("shutdown", "done")
         /\ UNCHANGED database
    [] OTHER -> FALSE

\* the goroutine of line 111: kafkaConsumer.Stop(shutdownCtx)
StopKafkaStep ==
  /\ At("stopKafka", "Stop")
  /\ StopBody
  /\ stopErrors' = IF ret'.err # NoErr THEN stopErrors + 1 ELSE stopErrors
  /\ GoTo("stopKafka", "done")

\* the goroutine of line 121: httpServer.Stop(shutdownCtx) is Shutdown,
\* which closes the listeners and may return an error
StopHTTPStep ==
  /\ At("stopHTTP", "Stop")
  /\ server' = "shutdown"
  /\ \E fails \in BOOLEAN :
       stopErrors' = IF fails THEN stopErrors + 1 ELSE stopErrors
  /\ GoTo("stopHTTP", "done")

RunFrame == UNCHANGED <<coreVars, hist, messages, idCounter, cursor, groupID,
                        signalled>>

\* a step of the goroutine g of main
Run(g) ==
  /\ proc = "running"
  /\ CASE g = "main" ->
            /\ MainStep
            /\ UNCHANGED <<ret, running, reader, closed, loops, server,
                           database, stopErrors>>
       [] g = "http" ->
            /\ HTTPStep
            /\ UNCHANGED <<ret, running, reader, closed, loops, database,
                           stopErrors, notified, proc, ctx>>
       [] g = "kafka" ->
            /\ KafkaStep
            /\ UNCHANGED <<closed, server, database, stopErrors, notified,
                           proc, ctx>>
       [] g = "shutdown" ->
            /\ ShutdownStep
            /\ UNCHANGED <<ret, running, reader, closed, loops, errChan,
                           server, stopErrors, notified, proc>>
       [] g = "stopKafka" ->
            /\ StopKafkaStep
            /\ UNCHANGED <<loops, errChan, server, database, notified, proc,
                           ctx>>
       [] g = "stopHTTP" ->
            /\ StopHTTPStep
            /\ UNCHANGED <<ret, running, reader, closed, loops, errChan,
                           database, notified, proc, ctx>>
  /\ RunFrame

\* a SIGINT or SIGTERM is sent to the process
Signal ==
  /\ proc = "running"
  /\ ~ signalled
  /\ signalled' = TRUE
  /\ proc' = IF notified THEN proc ELSE "killed"
  /\ UNCHANGED <<coreVars, ret, hist, running, reader, closed, loops,
                 messages, idCounter, cursor, groupID, ctx, gpc, errChan,
                 server, database, notified, stopErrors>>

\* main at line 72
MainInit ==
  /\ CoreOff
  /\ ret = [op |-> "NewConsumer", err |-> NoErr]
  /\ hist = [failed |-> 0, succeeded |-> 0]
  /\ running = FALSE /\ reader = Nil /\ closed = {} /\ loops = <<>>
  /\ messages = <<>> /\ idCounter = 0 /\ cursor = 0
  /\ groupID \in BOOLEAN
  /\ ctx = "live"
  /\ gpc = [g \in Goroutines |-> IF g = "main" THEN "go http" ELSE "none"]
  /\ errChan = <<>> /\ server = "new" /\ database = "open"
  /\ notified = FALSE /\ signalled = FALSE /\ proc = "running"
  /\ stopErrors = 0

\* a step of the consume goroutine g, if Start spawned it
LoopStep(g) ==
  /\ g \in DOMAIN loops
  /\ \/ LoopTop(g) \/ LoopFetch(g) \/ LoopProcess(g)
     \/ LoopSend(g) \/ LoopCommit(g)

MainNext ==
  \/ \E g \in Goroutines : Run(g)
  \/ Signal
  \/ \E g \in DOMAIN loops : LoopTop(g)
  \/ \E g \in DOMAIN loops : LoopFetch(g)
  \/ \E g \in DOMAIN loops : LoopProcess(g)
  \/ \E g \in DOMAIN loops : LoopSend(g)
  \/ \E g \in DOMAIN loops : LoopCommit(g)

SpecMain == MainInit /\ [][MainNext]_vars

\* The Go scheduler runs every goroutine that can run: a goroutine that is
\* not waiting (for errChan, for the server, for the WaitGroup, for ctx)
\* takes its step.
SpecMainFair ==
  /\ SpecMain
  /\ \A g \in Goroutines : WF_vars(Run(g))
  /\ \A g \in 1..MaxStarts : WF_vars(LoopStep(g))

\* the HTTP server and the consumer started without an error
StartedBoth ==
  /\ server = "listening" /\ gpc["kafka"] = "done" /\ running
  /\ errChan = <<>> /\ proc # "exit 1"

\* C39: when the HTTP server and the consumer started without an error,
\* main comes to install its signal handling, and after a SIGINT or SIGTERM
\* Stop is called on the consumer and on the HTTP server, the database is
\* closed, the root context is cancelled, and main returns.
C39_GracefulShutdown ==
  /\ (StartedBoth /\ ~ signalled) ~> (notified \/ signalled)
  /\ (StartedBoth /\ signalled) ~>
       /\ gpc["stopKafka"] = "done" /\ gpc["stopHTTP"] = "done"
       /\ database = "closed" /\ ctx = "cancelled" /\ proc = "exit 0"

====
